---- MODULE Spec2Model ----
(***************************************************************************)
(* A model of the ray tracer: the parallel renderer (camera.rs), the hit   *)
(* selection and refraction-stack algorithm (shape/mod.rs), the recursive  *)
(* shading integrator (world.rs), the canvas and its PPM text              *)
(* (canvas/mod.rs), the transform cache of the shapes and the              *)
(* local_intersect routines of the cube and the plane (shape/).            *)
(*                                                                         *)
(* Numbers are fixed point: One stands for 1.0, so a colour channel, a     *)
(* material coefficient or a refractive index v is the integer v * One.    *)
(***************************************************************************)
EXTENDS Integers, Sequences, FiniteSets, TLC

\* ---------------------------------------------------------------- bounds
MaxSize == 3          \* largest hsize and vsize of a camera
MaxCanvas == 2        \* largest width and height of a canvas written by hand
MaxCalls == 3         \* most write_pixel, pixel_at and draw_circle calls on one canvas
MaxRadius == 2        \* largest radius of a draw_circle call
MaxPpmWidth == 3      \* largest width of a canvas converted to PPM
MaxOffset == 2        \* largest translation of a transform given to a shape
MaxCoord == 2         \* largest coordinate of the origin of a ray in object space
MaxTenths == 25       \* largest x of a pattern point, in tenths
MaxBig == 3           \* largest x of a pattern point, in multiples of 2^30
MaxObjects == 2       \* most objects of a world intersect_world is called on
MaxLight == 2         \* distance of the light from the point calculate_lighting is called on
MaxXs == 3            \* longest list of intersections of one ray
MaxT == 1             \* largest t of an intersection (the smallest is -1)
NegDepths == 1        \* how far below 0 the depth of a color_at call may start

\* ------------------------------------------------------ program constants
One == 100                              \* fixed-point 1.0
Half == 1                               \* jitter 0.5, in half-pixel units
MAX_REFLECTION_RECURSION_DEPTH == 5     \* camera.rs:26
EPSILON == 1                            \* tuple/mod.rs:7, the unit of length

VARIABLES
    \* Camera::render
    hsize, vsize, samples,   \* the camera
    world,                   \* the shared scene (&World)
    canvas,                  \* Canvas.pixels, row major
    chan,                    \* the mpsc channel: messages sent, not yet received
    scan,                    \* per scanline y: -1 not started, else the next x
    progress,                \* the AtomicI64 progress counter
    merged,                  \* iterations of the merge loop completed
    rpc,                     \* "render" | "done" | "panic" | "off"
    writes,                  \* history: write_pixel calls that succeeded, per pixel
    \* Intersection::get_hit, Intersection::calculate_refractive_indices
    xs,                      \* the intersections of the ray
    hit,                     \* the intersection precompute_hit is called on (self)
    containers,              \* the shapes entered and not yet left
    idx,                     \* the position of the loop in xs
    n1, n2,                  \* the refractive indices found so far
    hpc,                     \* "start" | "hit" | "nohit" | "loop" | "done" | "off"
    \* World::color_at and the calls below it
    stack,                   \* the active color_at calls, the outermost first
    depth0,                  \* the depth the outermost call was given
    result,                  \* the colour the outermost call returned
    spc,                     \* "run" | "done" | "off"
    \* Canvas
    cv,                      \* the canvas: width, height, pixels (row major)
    cret,                    \* the last write_pixel or pixel_at call and its result
    ppk,                     \* convert_to_ppm: the pixels written so far
    char_count,              \* convert_to_ppm: the counter of the line break
    col,                     \* convert_to_ppm: the length of the line being written
    longest,                 \* convert_to_ppm: the longest line finished so far
    ppc,                     \* "canvas" | "panic" | "ppm" | "done" | "off"
    \* Cube, Plane, Cylinder
    theShape,                \* a shape: kind, transform, inverse_transform
    \* Cube::local_intersect, Plane::local_intersect, the sort of the result
    lkind,                   \* "Cube" | "Plane"
    lray,                    \* the ray in object space: origin and direction, x y z
    lxs,                     \* the t values returned, <<>> for None
    lpc,                     \* "start" | "intersected" | "sorted" | "off"
    \* a call of a function of its arguments alone
    arg,                     \* the arguments of the call
    ret,                     \* what the call returned
    cpc                      \* "call" | "returned" | "off"

renderVars == <<hsize, vsize, samples, world, canvas, chan, scan, progress,
                merged, rpc, writes>>

hitVars == <<xs, hit, containers, idx, n1, n2, hpc>>

shadeVars == <<stack, depth0, result, spc>>

canvasVars == <<cv, cret, ppk, char_count, col, longest, ppc>>

\* the state of the components modelled further down
localVars == <<lkind, lray, lxs, lpc>>

callVars == <<arg, ret, cpc>>

otherVars == <<canvasVars, theShape, localVars, callVars>>

vars == <<renderVars, hitVars, shadeVars, otherVars>>

\* ------------------------------------------------------------------ Color
Black == <<0, 0, 0>>

ColorAdd(a, b) == <<a[1] + b[1], a[2] + b[2], a[3] + b[3]>>

\* Color * f32, the scalar in fixed point
ColorScale(c, s) == <<(c[1] * s) \div One, (c[2] * s) \div One, (c[3] * s) \div One>>

\* Color * Color (Hadamard product)
ColorMul(a, b) == <<(a[1] * b[1]) \div One, (a[2] * b[2]) \div One, (a[3] * b[3]) \div One>>

Clamp(v, lo, hi) == IF v < lo THEN lo ELSE IF v > hi THEN hi ELSE v

\* ----------------------------------------------------------------- Canvas
CanvasNew(w, h) == [i \in 1..(w * h) |-> Black]

\* index_at without the row stride: two pixels of a diagonal share an index
IndexAtNoStride(w, h, x, y) == IF x >= w \/ y >= h THEN 0 ELSE y + x + 1

\* Canvas::index_at: the 1-based index of (x, y), or 0 for the Err value
IndexAt(w, h, x, y) == IF x >= w \/ y >= h THEN 0 ELSE y * w + x + 1

\* Canvas::write_pixel: the pixels after the call, ok = FALSE for Err
WritePixelUnchecked(pixels, w, h, x, y, color) ==
    LET index == y * w + x + 1
    IN [ok |-> TRUE,
        pixels |-> IF index \in DOMAIN pixels THEN [pixels EXCEPT ![index] = color]
                   ELSE pixels]
WritePixel(pixels, w, h, x, y, color) ==
    LET index == IndexAt(w, h, x, y)
    IN IF index = 0 THEN [ok |-> FALSE, pixels |-> pixels]
       ELSE [ok |-> TRUE, pixels |-> [pixels EXCEPT ![index] = color]]

\* ----------------------------------------------------------------- Camera
\* The scene as the camera sees it.  In a render world the transform of a
\* shape is the rectangle <<x0, x1, y0, y1>> of image plane offsets its
\* silhouette covers (in half pixels); a ray through a covered offset hits
\* the first such shape and returns its colour under the light, any other
\* ray misses and returns black.
Covers(shape, xoffset, yoffset) ==
    /\ shape.transform[1] <= xoffset /\ xoffset < shape.transform[2]
    /\ shape.transform[3] <= yoffset /\ yoffset < shape.transform[4]

CameraColorAt(w, xoffset, yoffset, depth) ==
    LET hits == {i \in 1..Len(w.objects) : Covers(w.objects[i], xoffset, yoffset)}
    IN IF hits = {} THEN Black
       ELSE LET i == CHOOSE j \in hits : \A k \in hits : j <= k
            IN ColorMul(w.objects[i].material.color, w.light_source.intensity)

\* Camera::ray_for_pixel: the jitter values the ray may be built from
JitterAlways(spp) == 0..Half
Jitter(spp) == IF spp = 1 THEN {Half} ELSE 0..Half

\* Camera::ray_for_pixel: the offsets of the ray through (px, py)
RayForPixel(px, py, jx, jy) == [xoffset |-> 2 * px + jx, yoffset |-> 2 * py + jy]

\* a colour channel that is f32::NAN: no number of the fixed point range
ChannelNaN == -(One * One * One)

\* Camera::rescale_color_range.  scale = 1.0 / samples_pre_pixel as f32 is
\* +inf for 0 samples: a channel times +inf is +inf or -inf, which clamp
\* cuts to 1 or 0, and 0.0 * inf is NaN, which clamp returns as it is.
RescaleNoClamp(color, spp) ==
    IF spp = 0
    THEN [c \in 1..3 |-> IF color[c] = 0 THEN ChannelNaN ELSE color[c] * One * One]
    ELSE ColorScale(color, One \div spp)
RescaleColorRange(color, spp) ==
    IF spp = 0
    THEN [c \in 1..3 |-> IF color[c] = 0 THEN ChannelNaN
                         ELSE IF color[c] > 0 THEN One ELSE 0]
    ELSE LET scale == One \div spp
             scaled == ColorScale(color, scale)
         IN <<Clamp(scaled[1], 0, One), Clamp(scaled[2], 0, One),
              Clamp(scaled[3], 0, One)>>

\* the sum of the sample colours of pixel (x, y) for a sequence of jitters
RECURSIVE SampleSum(_, _, _, _)
SampleSum(w, x, y, js) ==
    IF js = <<>> THEN Black
    ELSE LET ray == RayForPixel(x, y, Head(js)[1], Head(js)[2])
         IN ColorAdd(CameraColorAt(w, ray.xoffset, ray.yoffset,
                                   MAX_REFLECTION_RECURSION_DEPTH),
                     SampleSum(w, x, y, Tail(js)))

\* the values of samples_pre_pixel, a public usize: no sample at all,
\* jitter disabled, and jittered sampling
SampleCounts == {0, 1, 2}

\* the number of messages the merge loop waits for
MergeCountFull(h, v) == h * v
MergeCount(h, v) == (h - 1) * (v - 1)

\* the rows of a loop that reaches the last row
ScanlinesAll(v) == 0..(v - 1)

\* the scanlines and the columns the parallel loops range over
Scanlines(v) == 0..(v - 2)
ColumnsThrough(h) == 0..h
Columns(h) == 0..(h - 2)

Inverse(rect) == <<-rect[1], -rect[2], -rect[3], -rect[4]>>

RenderShape(id, rect, color) ==
    [id |-> id, transform |-> rect, inverse_transform |-> Inverse(rect),
     material |-> [color |-> color, reflective |-> 0, transparency |-> 0,
                   refractive_index |-> One]]

RenderLight == [position |-> -10, intensity |-> <<One, One, One>>]

\* an empty scene, and a scene of two shapes: one ends inside pixel column 1
\* (so that jitter matters there), one is brighter than 1.0 and fills row 1
RenderWorlds ==
    { [light_source |-> RenderLight, objects |-> <<>>],
      [light_source |-> RenderLight,
       objects |-> << RenderShape(1, <<0, 3, 0, 2>>, <<One, One \div 2, 0>>),
                      RenderShape(2, <<0, 8, 2, 4>>, <<3 * One, One, One \div 4>>) >>] }

RenderInit ==
    /\ hsize \in 1..MaxSize
    /\ vsize \in 1..MaxSize
    /\ samples \in SampleCounts
    /\ world \in RenderWorlds
    /\ canvas = CanvasNew(hsize, vsize)
    /\ chan = <<>>
    /\ scan = [y \in Scanlines(vsize) |-> -1]
    /\ progress = 0
    /\ merged = 0
    /\ rpc = "render"
    /\ writes = [i \in 1..(hsize * vsize) |-> 0]

\* a scanline task starts: progress.fetch_add(1)
ScanlineStart(y) ==
    /\ rpc = "render"
    /\ scan[y] = -1
    /\ progress' = progress + 1
    /\ scan' = [scan EXCEPT ![y] = 0]
    /\ UNCHANGED <<hsize, vsize, samples, world, canvas, chan, merged, rpc, writes>>
    /\ UNCHANGED <<hitVars, shadeVars, otherVars>>

\* the body of the inner loop for pixel (scan[y], y): sample, rescale, send
RenderPixelBody(y) ==
    /\ rpc = "render"
    /\ scan[y] \in Columns(hsize)
    /\ \E js \in [1..samples -> Jitter(samples) \X Jitter(samples)] :
          LET x == scan[y]
              color == SampleSum(world, x, y, js)
          IN chan' = Append(chan, [x |-> x, y |-> y,
                                   color |-> RescaleColorRange(color, samples)])
    /\ scan' = [scan EXCEPT ![y] = scan[y] + 1]
    /\ UNCHANGED <<hsize, vsize, samples, canvas, progress, merged, rpc, writes>>
    /\ UNCHANGED <<hitVars, shadeVars, otherVars>>

RenderPixelMutating(y) ==
    /\ RenderPixelBody(y)
    /\ world' = [world EXCEPT !.light_source.position = y]
RenderPixel(y) ==
    /\ RenderPixelBody(y)
    /\ world' = world

\* for_each has returned when every scanline has run to its end
ParallelDone == \A y \in Scanlines(vsize) : scan[y] = hsize - 1

\* one iteration of the merge loop: recv, write_pixel, unwrap
MergeRecv ==
    /\ rpc = "render"
    /\ ParallelDone
    /\ merged < MergeCount(hsize, vsize)
    /\ chan # <<>>
    /\ LET msg == Head(chan)
           res == WritePixel(canvas, hsize, vsize, msg.x, msg.y, msg.color)
       IN /\ canvas' = res.pixels
          /\ rpc' = IF res.ok THEN "render" ELSE "panic"
          /\ writes' = IF res.ok
                       THEN [writes EXCEPT ![IndexAt(hsize, vsize, msg.x, msg.y)] = @ + 1]
                       ELSE writes
    /\ chan' = Tail(chan)
    /\ merged' = merged + 1
    /\ UNCHANGED <<hsize, vsize, samples, world, scan, progress>>
    /\ UNCHANGED <<hitVars, shadeVars, otherVars>>

\* the merge loop has run its iterations: render returns the canvas
RenderReturn ==
    /\ rpc = "render"
    /\ ParallelDone
    /\ merged >= MergeCount(hsize, vsize)
    /\ rpc' = "done"
    /\ UNCHANGED <<hsize, vsize, samples, world, canvas, chan, scan, progress,
                   merged, writes>>
    /\ UNCHANGED <<hitVars, shadeVars, otherVars>>

\* no render is running
RenderIdle ==
    /\ hsize = 1 /\ vsize = 1 /\ samples = 1
    /\ canvas = CanvasNew(1, 1)
    /\ chan = <<>>
    /\ scan = [y \in Scanlines(1) |-> -1]
    /\ progress = 0
    /\ merged = 0
    /\ rpc = "off"
    /\ writes = [i \in 1..1 |-> 0]

RenderOff ==
    /\ RenderIdle
    /\ world = [light_source |-> RenderLight, objects |-> <<>>]

\* ----------------------------------------------------------- Intersection
None == [none |-> TRUE]

\* a shape: its id, its transform (the cached inverse is its negation here)
\* and the refractive index of its material
MkShape(id, transform, index) ==
    [id |-> id, transform |-> transform, inverse_transform |-> -transform,
     material |-> [refractive_index |-> index]]

\* four shapes: Glass1 and Glass2 have the same transform and material and
\* different ids, Dense has its own id and values, and Copy carries the id
\* of Glass1 with other values (Plane::new and Cylinder.id let a caller
\* choose the id of a shape)
Glass1 == MkShape(1, 0, (3 * One) \div 2)
Glass2 == MkShape(2, 0, (3 * One) \div 2)
Dense == MkShape(3, 1, (5 * One) \div 2)
Copy == MkShape(1, 1, 2 * One)
Shapes == {Glass1, Glass2, Dense, Copy}

Intersections == [t : -1..MaxT, object : Shapes]

\* PartialEq for dyn Shape
ShapeEqByValue(a, b) == a.transform = b.transform /\ a.material = b.material
ShapeEq(a, b) == a.id = b.id

\* PartialEq for Intersection that compares t alone
IntersectionEqByT(i, j) == i.t = j.t

\* PartialEq for Intersection
IntersectionEq(i, j) == i.t = j.t /\ ShapeEq(i.object, j.object)

\* Iterator::min_by on the t of the intersections: the first of the smallest
RECURSIVE MinBy(_, _)
MinBy(best, rest) ==
    IF rest = <<>> THEN best
    ELSE MinBy(IF best.t > Head(rest).t THEN Head(rest) ELSE best, Tail(rest))

\* the filter of Intersection::get_hit
IsCandidatePositive(x) == x.t > 0
IsCandidate(x) == x.t >= 0

\* Intersection::get_hit
GetHit(hits) ==
    LET kept == SelectSeq(hits, IsCandidate)
    IN IF kept = <<>> THEN None ELSE MinBy(Head(kept), Tail(kept))

\* the refractive index read at the hit: 1.0 outside every container, else
\* that of the last container
IndexOfFirst(cs) == IF cs = <<>> THEN One ELSE cs[1].material.refractive_index
IndexOfLast(cs) == IF cs = <<>> THEN One ELSE cs[Len(cs)].material.refractive_index

\* Itertools::find_position: the first position of the object in the
\* containers, 0 when it is in none
FindPosition(cs, object) ==
    IF \E k \in 1..Len(cs) : ShapeEq(cs[k], object)
    THEN CHOOSE k \in 1..Len(cs) :
            /\ ShapeEq(cs[k], object)
            /\ \A j \in 1..(k - 1) : ~ShapeEq(cs[j], object)
    ELSE 0

\* Vec::pop in the place of Vec::remove
RemoveLast(cs, k) == SubSeq(cs, 1, Len(cs) - 1)

\* Vec::remove
Remove(cs, k) == SubSeq(cs, 1, k - 1) \o SubSeq(cs, k + 1, Len(cs))

\* the containers after the object of an intersection has been met
Toggle(cs, object) ==
    LET index == FindPosition(cs, object)
    IN IF index # 0 THEN Remove(cs, index) ELSE Append(cs, object)

\* the lists of intersections of at most MaxXs elements
XsInputs == UNION {[1..n -> Intersections] : n \in 0..MaxXs}

Range(f) == {f[i] : i \in DOMAIN f}

\* the intersections precompute_hit is called on directly: any element of
\* xs, and two that xs may not hold
HitChoices(list) ==
    Range(list) \cup {[t |-> 0, object |-> Dense], [t |-> MaxT + 1, object |-> Glass1]}

HitInit ==
    /\ xs \in XsInputs
    /\ hit = None
    /\ containers = <<>>
    /\ idx = 1
    /\ n1 = 0
    /\ n2 = 0
    /\ hpc = "start"

\* no hit computation is running
HitOff ==
    /\ xs = <<>>
    /\ hit = None
    /\ containers = <<>>
    /\ idx = 1
    /\ n1 = 0
    /\ n2 = 0
    /\ hpc = "off"

\* World::color_at: the hit of the intersections of the ray
ColorAtHit ==
    /\ hpc = "start"
    /\ hit' = GetHit(xs)
    /\ hpc' = IF hit' = None THEN "nohit" ELSE "hit"
    /\ UNCHANGED <<xs, containers, idx, n1, n2>>
    /\ UNCHANGED <<renderVars, shadeVars, otherVars>>

\* World::color_at: hit.precompute_hit(r, &xs)
ColorAtPrecompute ==
    /\ hpc = "hit"
    /\ hpc' = "loop"
    /\ UNCHANGED <<xs, hit, containers, idx, n1, n2>>
    /\ UNCHANGED <<renderVars, shadeVars, otherVars>>

\* a direct call h.precompute_hit(ray, xs)
PrecomputeHit(h) ==
    /\ hpc = "start"
    /\ hit' = h
    /\ hpc' = "loop"
    /\ UNCHANGED <<xs, containers, idx, n1, n2>>
    /\ UNCHANGED <<renderVars, shadeVars, otherVars>>

\* one iteration of the loop of calculate_refractive_indices
RefractionStep ==
    /\ hpc = "loop"
    /\ idx <= Len(xs)
    /\ LET i == xs[idx]
           found == IntersectionEq(i, hit)
       IN /\ n1' = IF found THEN IndexOfLast(containers) ELSE n1
          /\ containers' = Toggle(containers, i.object)
          /\ n2' = IF found THEN IndexOfLast(containers') ELSE n2
          /\ hpc' = IF found THEN "done" ELSE "loop"
    /\ idx' = idx + 1
    /\ UNCHANGED <<xs, hit>>
    /\ UNCHANGED <<renderVars, shadeVars, otherVars>>

\* the loop has run through xs without a break
RefractionEnd ==
    /\ hpc = "loop"
    /\ idx > Len(xs)
    /\ hpc' = "done"
    /\ UNCHANGED <<xs, hit, containers, idx, n1, n2>>
    /\ UNCHANGED <<renderVars, shadeVars, otherVars>>

HitNext ==
    \/ ColorAtHit
    \/ ColorAtPrecompute
    \/ \E h \in HitChoices(xs) : PrecomputeHit(h)
    \/ RefractionStep
    \/ RefractionEnd

\* ------------------------------------------------- rays along the y axis
\* The shading integrator is modelled on scenes of planes across the y axis
\* and rays along it: a point or a vector is its y component, lengths are
\* counted in units of EPSILON, a direction is -1 or 1.
Abs(v) == IF v < 0 THEN -v ELSE v

\* Vector::normalize
Normalize(v) == IF v < 0 THEN -1 ELSE IF v > 0 THEN 1 ELSE 0

\* Vector::dot
Dot(a, b) == a * b

\* Vector::reflect
Reflect(v, normal) == v - normal * 2 * Dot(v, normal)

\* division that rounds toward zero
Quot(a, b) ==
    IF b < 0 THEN (IF a < 0 THEN (-a) \div (-b) ELSE -(a \div (-b)))
    ELSE (IF a < 0 THEN -((-a) \div b) ELSE a \div b)

\* fixed-point product, quotient and square root
FMul(a, b) == Quot(a * b, One)
FDiv(a, b) == Quot(a * One, b)
FSqrt(v) == CHOOSE r \in 0..(2 * One) : r * r <= v * One /\ v * One < (r + 1) * (r + 1)

\* Ray::position
Position(ray, t) == ray.origin + ray.direction * t

\* Ray::transform, by a translation along y
RayTransform(ray, m) == [origin |-> ray.origin + m, direction |-> ray.direction]

\* Plane::local_intersect: None is the empty list
PlaneLocalIntersect(shape, ray) ==
    IF Abs(ray.direction) < EPSILON THEN <<>>
    ELSE <<[t |-> Quot(-ray.origin, ray.direction), object |-> shape]>>

\* Shape::intersect
Intersect(shape, ray) ==
    PlaneLocalIntersect(shape, RayTransform(ray, shape.inverse_transform))

\* Plane::local_normal and Shape::get_normal of a plane moved along y
PlaneLocalNormal(point) == 1
GetNormal(shape, point) == Normalize(PlaneLocalNormal(point + shape.inverse_transform))

\* Itertools::sorted: a stable sort by t.  The place of an element is one
\* more than the number of elements that sort before it: those with a
\* smaller t, and those with the same t that come earlier in the list.
Rank(list, k) ==
    1 + Cardinality({j \in 1..Len(list) :
                        \/ list[j].t < list[k].t
                        \/ list[j].t = list[k].t /\ j < k})

Sorted(list) ==
    [p \in 1..Len(list) |-> list[CHOOSE k \in 1..Len(list) : Rank(list, k) = p]]

\* the intersections of the objects, in the order of the objects
RECURSIVE IntersectAll(_, _)
IntersectAll(objects, ray) ==
    IF objects = <<>> THEN <<>>
    ELSE Intersect(Head(objects), ray) \o IntersectAll(Tail(objects), ray)

\* World::intersect_world
IntersectWorld(w, ray) == Sorted(IntersectAll(w.objects, ray))

\* Intersection::calculate_refractive_indices: the loop from the containers
\* cs on; (0, 0) when it ends without meeting the hit
RECURSIVE RefractiveLoop(_, _, _)
RefractiveLoop(h, rest, cs) ==
    IF rest = <<>> THEN <<0, 0>>
    ELSE LET i == Head(rest)
             after == Toggle(cs, i.object)
         IN IF IntersectionEq(i, h)
            THEN <<IndexOfLast(cs), IndexOfLast(after)>>
            ELSE RefractiveLoop(h, Tail(rest), after)

CalculateRefractiveIndices(h, list) == RefractiveLoop(h, list, <<>>)

\* Intersection::precompute_hit: the normal points away from the eye
FacesToward(normal, eye) == Dot(normal, eye) > 0
FacesAway(normal, eye) == Dot(normal, eye) < 0

\* Intersection::precompute_hit
Precompute(h, ray, list) ==
    LET point == Position(ray, h.t)
        eye == -ray.direction
        shapeNormal == GetNormal(h.object, point)
        inside == FacesAway(shapeNormal, eye)
        normal == IF inside THEN -shapeNormal ELSE shapeNormal
        n == CalculateRefractiveIndices(h, list)
    IN [intersection |-> h, point |-> point, eye |-> eye, normal |-> normal,
        inside |-> inside,
        over_point |-> point + normal * EPSILON,
        under_point |-> point - normal * EPSILON,
        reflected_vector |-> Reflect(ray.direction, normal),
        n1 |-> n[1], n2 |-> n[2]]

\* PrecomputedHit::schlick_reflectance
SchlickReflectance(comps) ==
    LET cos0 == Dot(comps.eye, comps.normal) * One
        n == FDiv(comps.n1, comps.n2)
        sin2t == FMul(FMul(n, n), One - FMul(cos0, cos0))
        r0 == FMul(FDiv(comps.n1 - comps.n2, comps.n1 + comps.n2),
                   FDiv(comps.n1 - comps.n2, comps.n1 + comps.n2))
        Pow5(x) == FMul(FMul(FMul(x, x), FMul(x, x)), x)
    IN IF comps.n1 > comps.n2 /\ sin2t > One THEN One
       ELSE LET cos == IF comps.n1 > comps.n2 THEN FSqrt(One - sin2t) ELSE cos0
            IN FMul(One - r0, Pow5(One - cos)) + r0

\* World::is_shadowed: the hit lies before the light
AnyHit(t, distance) == TRUE
Nearer(t, distance) == t < distance

\* World::is_shadowed
IsShadowed(w, p) ==
    LET v == w.light_source.position - p
        distance == Abs(v)
        direction == Normalize(v)
    IN \E h \in {GetHit(IntersectWorld(w, [origin |-> p, direction |-> direction]))} :
          h # None /\ Nearer(h.t, distance)

\* PointLight::calculate_lighting, for a material without a pattern
CalculateLighting(light, material, pos, eye, normal, in_shadow) ==
    LET effective == ColorMul(material.color, light.intensity)
        ambient == ColorScale(effective, material.ambient)
        light_vector == Normalize(light.position - pos)
        light_dot_normal == Dot(light_vector, normal)
        reflect_vector == -Reflect(light_vector, normal)
        reflect_dot_eye == Dot(reflect_vector, eye)
        factor == IF reflect_dot_eye = 0 THEN 0 ELSE One
        diffuse == IF light_dot_normal < 0 THEN Black
                   ELSE ColorScale(ColorScale(effective, material.diffuse),
                                   light_dot_normal * One)
        specular == IF light_dot_normal < 0 \/ reflect_dot_eye < 0 THEN Black
                    ELSE ColorScale(ColorScale(light.intensity, material.specular),
                                    factor)
    IN IF in_shadow THEN ambient
       ELSE ColorAdd(ColorAdd(ambient, diffuse), specular)

\* ------------------------------------------------------------------ World
MkMaterial(color, reflective, transparency, index) ==
    [color |-> color, ambient |-> One \div 10, diffuse |-> (9 * One) \div 10,
     specular |-> (9 * One) \div 10, shininess |-> 200 * One,
     reflective |-> reflective, refractive_index |-> index,
     transparency |-> transparency]

Matte == MkMaterial(<<One, One \div 5, One \div 5>>, 0, 0, One)
Mirror == MkMaterial(<<One, One, One>>, One, 0, One)
Glass == MkMaterial(<<One \div 5, One \div 5, One>>, 0, One, (3 * One) \div 2)
Tinted == MkMaterial(<<One \div 5, One, One \div 5>>, One \div 2, One \div 2,
                     (3 * One) \div 2)
Materials == {Matte, Mirror, Glass, Tinted}

\* Plane::default_with_material(m).set_transform(translate(0, y, 0))
MkPlane(id, y, material) ==
    [id |-> id, transform |-> y, inverse_transform |-> -y, material |-> material]

\* the places of the floor, the pane and the ceiling, of the light and of
\* the eye, in units of EPSILON
FloorY == -4
PaneY == 0
CeilingY == 4
LightY == 2
EyeY == -2

ShadeLight == [position |-> LightY, intensity |-> <<One, One, One>>]

\* a floor and a ceiling facing each other, with or without a pane between,
\* and the scene without objects
ShadeWorlds ==
    { [light_source |-> ShadeLight, objects |-> <<>>] }
    \cup
    { [light_source |-> ShadeLight,
       objects |-> <<MkPlane(1, FloorY, mf), MkPlane(2, CeilingY, mc)>>]
      : mf \in Materials, mc \in Materials }
    \cup
    { [light_source |-> ShadeLight,
       objects |-> <<MkPlane(1, FloorY, mf), MkPlane(2, CeilingY, mc),
                     MkPlane(3, PaneY, mp)>>]
      : mf \in {Matte, Mirror}, mc \in {Mirror, Tinted}, mp \in {Glass, Tinted} }

\* the rays color_at starts from: up or down from the eye
ShadeRays == [origin : {EyeY}, direction : {-1, 1}]

StartDepths == (-NegDepths)..MAX_REFLECTION_RECURSION_DEPTH

\* an active call color_at(ray, depth)
NewFrame(ray, depth) ==
    [ray |-> ray, depth |-> depth, pc |-> "color_at", comps |-> None,
     shadowed |-> FALSE, surface |-> Black, reflected |-> Black, refracted |-> Black]

ShadeInit ==
    /\ world \in ShadeWorlds
    /\ depth0 \in StartDepths
    /\ \E ray \in ShadeRays : stack = <<NewFrame(ray, depth0)>>
    /\ result = None
    /\ spc = "run"

\* no color_at call is running
ShadeOff ==
    /\ stack = <<>>
    /\ depth0 = 0
    /\ result = None
    /\ spc = "off"

Top == stack[Len(stack)]

SetTop(frame) == [stack EXCEPT ![Len(stack)] = frame]

\* the innermost call returns the colour: the caller, reflected_color or
\* refracted_color, scales it and goes on; the outermost call returns it
Return(color) ==
    IF Len(stack) = 1
    THEN /\ stack' = <<>>
         /\ result' = color
         /\ spc' = "done"
    ELSE LET caller == stack[Len(stack) - 1]
             material == caller.comps.intersection.object.material
             resumed ==
                 IF caller.pc = "await_reflected"
                 THEN [caller EXCEPT !.reflected = ColorScale(color, material.reflective),
                                     !.pc = "refracted"]
                 ELSE [caller EXCEPT !.refracted = ColorScale(color, material.transparency),
                                     !.pc = "combine"]
         IN /\ stack' = Append(SubSeq(stack, 1, Len(stack) - 2), resumed)
            /\ UNCHANGED <<result, spc>>

\* the depth a secondary color_at call is given
SameDepth(remaining) == remaining
NextDepth(remaining) == remaining - 1

\* World::color_at: the colour of a ray without a hit
MissColorWhite == <<One, One, One>>
MissColor == <<0, 0, 0>>

\* World::color_at: intersect, pick the hit, precompute it, or return black
ColorAt ==
    /\ spc = "run"
    /\ Top.pc = "color_at"
    /\ \E list \in {IntersectWorld(world, Top.ray)} :
       \E h \in {GetHit(list)} :
          IF h = None
          THEN Return(MissColor)
          ELSE /\ \E comps \in {Precompute(h, Top.ray, list)} :
                     stack' = SetTop([Top EXCEPT !.comps = comps, !.pc = "shade_hit"])
               /\ UNCHANGED <<result, spc>>
    /\ UNCHANGED depth0
    /\ UNCHANGED <<renderVars, hitVars, otherVars>>

\* World::shade_hit: the shadow test and the surface colour
ShadeHit ==
    /\ spc = "run"
    /\ Top.pc = "shade_hit"
    /\ \E comps \in {Top.comps} :
       \E shadowed \in {IsShadowed(world, comps.over_point)} :
       \E surface \in {CalculateLighting(world.light_source,
                                         comps.intersection.object.material,
                                         comps.over_point, comps.eye, comps.normal,
                                         shadowed)} :
          stack' = SetTop([Top EXCEPT !.shadowed = shadowed, !.surface = surface,
                                      !.pc = "reflected"])
    /\ UNCHANGED <<depth0, result, spc>>
    /\ UNCHANGED <<renderVars, hitVars, otherVars>>

\* the guards of reflected_color: on the remaining depth, on the material
ReflectionSpent(remaining) == remaining <= 0

NotReflectiveNever(material) == FALSE
NotReflective(material) == material.reflective = 0

\* World::reflected_color
ReflectedColor ==
    /\ spc = "run"
    /\ Top.pc = "reflected"
    /\ LET comps == Top.comps
           material == comps.intersection.object.material
       IN IF ReflectionSpent(Top.depth) \/ NotReflective(material)
          THEN stack' = SetTop([Top EXCEPT !.reflected = Black, !.pc = "refracted"])
          ELSE stack' = Append(SetTop([Top EXCEPT !.pc = "await_reflected"]),
                               NewFrame([origin |-> comps.over_point,
                                         direction |-> comps.reflected_vector],
                                        NextDepth(Top.depth)))
    /\ UNCHANGED <<depth0, result, spc>>
    /\ UNCHANGED <<renderVars, hitVars, otherVars>>

\* the guards of refracted_color: on the remaining depth, on the material
RefractionSpent(remaining) == remaining = 0

Opaque(material) == material.transparency = 0

\* World::refracted_color
RefractedColor ==
    /\ spc = "run"
    /\ Top.pc = "refracted"
    /\ LET comps == Top.comps
           material == comps.intersection.object.material
           n_ratio == FDiv(comps.n1, comps.n2)
           cos_i == Dot(comps.eye, comps.normal) * One
           sin2_t == FMul(FMul(n_ratio, n_ratio), One - FMul(cos_i, cos_i))
           cos_t == FSqrt(One - sin2_t)
           direction == Quot(comps.normal * (FMul(n_ratio, cos_i) - cos_t)
                               - comps.eye * n_ratio, One)
       IN IF RefractionSpent(Top.depth) \/ Opaque(material)
          THEN stack' = SetTop([Top EXCEPT !.refracted = Black, !.pc = "combine"])
          ELSE IF sin2_t > One
          THEN stack' = SetTop([Top EXCEPT !.refracted = Black, !.pc = "combine"])
          ELSE stack' = Append(SetTop([Top EXCEPT !.pc = "await_refracted"]),
                               NewFrame([origin |-> comps.under_point,
                                         direction |-> direction],
                                        NextDepth(Top.depth)))
    /\ UNCHANGED <<depth0, result, spc>>
    /\ UNCHANGED <<renderVars, hitVars, otherVars>>

\* World::shade_hit: the material both reflects and transmits
BlendedEither(material) == material.reflective > 0 \/ material.transparency > 0
Blended(material) == material.reflective > 0 /\ material.transparency > 0

\* World::shade_hit: the sum of the three colours
Combine(frame) ==
    LET material == frame.comps.intersection.object.material
        reflectance == SchlickReflectance(frame.comps)
    IN IF Blended(material)
       THEN ColorAdd(ColorAdd(frame.surface, ColorScale(frame.reflected, reflectance)),
                     ColorScale(frame.refracted, One - reflectance))
       ELSE ColorAdd(ColorAdd(frame.surface, frame.reflected), frame.refracted)

\* World::shade_hit returns, and color_at with it
ShadeHitReturn ==
    /\ spc = "run"
    /\ Top.pc = "combine"
    /\ Return(Combine(Top))
    /\ UNCHANGED depth0
    /\ UNCHANGED <<renderVars, hitVars, otherVars>>

ShadeNext ==
    \/ ColorAt
    \/ ShadeHit
    \/ ReflectedColor
    \/ RefractedColor
    \/ ShadeHitReturn

\* ------------------------------------------------- Canvas: pixel access
\* the colours a caller writes
WriteColors == {<<One, 0, 0>>, <<One, One, One>>}

\* the coordinates a caller passes (usize): in range and past the end
Coordinates == 0..(MaxCanvas + 1)

NoCall == [n |-> 0, op |-> "none", x |-> 0, y |-> 0, ok |-> TRUE, color |-> Black]

\* no canvas is in use
CanvasOff ==
    /\ cv = [width |-> 0, height |-> 0, pixels |-> <<>>]
    /\ cret = NoCall
    /\ ppk = 0 /\ char_count = 0 /\ col = 0 /\ longest = 0
    /\ ppc = "off"

\* Canvas::new(width, height)
CanvasInit ==
    /\ \E w \in 0..MaxCanvas, h \in 0..MaxCanvas :
          cv = [width |-> w, height |-> h, pixels |-> CanvasNew(w, h)]
    /\ cret = NoCall
    /\ ppk = 0 /\ char_count = 0 /\ col = 0 /\ longest = 0
    /\ ppc = "canvas"

\* Canvas::write_pixel(x, y, color): Err leaves the canvas as it is
WritePixelCall(x, y, color) ==
    /\ ppc = "canvas"
    /\ cret.n < MaxCalls
    /\ LET res == WritePixel(cv.pixels, cv.width, cv.height, x, y, color)
       IN /\ cv' = [cv EXCEPT !.pixels = res.pixels]
          /\ cret' = [n |-> cret.n + 1, op |-> "write_pixel", x |-> x, y |-> y,
                      ok |-> res.ok, color |-> color]
    /\ UNCHANGED <<ppk, char_count, col, longest, ppc>>
    /\ UNCHANGED <<renderVars, hitVars, shadeVars, theShape, localVars, callVars>>

\* Canvas::pixel_at(x, y): Ok(the pixel) or Err
PixelAt(pixels, w, h, x, y) ==
    LET index == IndexAt(w, h, x, y)
    IN IF index = 0 THEN [ok |-> FALSE, color |-> Black]
       ELSE [ok |-> TRUE, color |-> pixels[index]]

PixelAtCall(x, y) ==
    /\ ppc = "canvas"
    /\ cret.n < MaxCalls
    /\ LET res == PixelAt(cv.pixels, cv.width, cv.height, x, y)
       IN cret' = [n |-> cret.n + 1, op |-> "pixel_at", x |-> x, y |-> y,
                   ok |-> res.ok, color |-> res.color]
    /\ UNCHANGED <<cv, ppk, char_count, col, longest, ppc>>
    /\ UNCHANGED <<renderVars, hitVars, shadeVars, theShape, localVars, callVars>>

\* Canvas::draw_circle(x, y, radius), from the k-th cell of its two loops
\* on: i from x.saturating_sub(radius) to x + radius - 1 and, inside, j from
\* y.saturating_sub(radius) to y + radius - 1.  i - x and j - y are usize:
\* for i < x or j < y the subtraction overflows, which panics in a build with
\* overflow checks and wraps in one without, where the wrapped square is the
\* square of the distance.  The first write_pixel that fails returns its
\* Err; the pixels written before it, or before a panic, stay written.
RECURSIVE DrawCircleFrom(_, _, _)
DrawCircleFrom(pixels, c, k) ==
    LET ilo == IF c.x >= c.radius THEN c.x - c.radius ELSE 0
        jlo == IF c.y >= c.radius THEN c.y - c.radius ELSE 0
        rows == c.y + c.radius - jlo
        cells == (c.x + c.radius - ilo) * rows
    IN IF k > cells THEN [outcome |-> "ok", pixels |-> pixels]
       ELSE LET i == ilo + ((k - 1) \div rows)
                j == jlo + ((k - 1) % rows)
                inside == (i - c.x) * (i - c.x) + (j - c.y) * (j - c.y)
                          <= c.radius * c.radius
                res == WritePixel(pixels, c.w, c.h, i, j, <<One, One, One>>)
            IN IF c.overflow_checks /\ (i < c.x \/ j < c.y)
               THEN [outcome |-> "panic", pixels |-> pixels]
               ELSE IF ~inside THEN DrawCircleFrom(pixels, c, k + 1)
               ELSE IF ~res.ok THEN [outcome |-> "err", pixels |-> pixels]
               ELSE DrawCircleFrom(res.pixels, c, k + 1)

DrawCircle(pixels, w, h, x, y, radius, overflow_checks) ==
    DrawCircleFrom(pixels, [w |-> w, h |-> h, x |-> x, y |-> y, radius |-> radius,
                            overflow_checks |-> overflow_checks], 1)

DrawCircleCall(x, y, radius, overflow_checks) ==
    /\ ppc = "canvas"
    /\ cret.n < MaxCalls
    /\ LET res == DrawCircle(cv.pixels, cv.width, cv.height, x, y, radius,
                             overflow_checks)
       IN /\ cv' = [cv EXCEPT !.pixels = res.pixels]
          /\ cret' = [n |-> cret.n + 1, op |-> "draw_circle", x |-> x, y |-> y,
                      ok |-> res.outcome = "ok", color |-> <<One, One, One>>]
          /\ ppc' = IF res.outcome = "panic" THEN "panic" ELSE ppc
    /\ UNCHANGED <<ppk, char_count, col, longest>>
    /\ UNCHANGED <<renderVars, hitVars, shadeVars, theShape, localVars, callVars>>

CanvasNext ==
    \/ \E x \in Coordinates, y \in Coordinates, color \in WriteColors :
          WritePixelCall(x, y, color)
    \/ \E x \in Coordinates, y \in Coordinates : PixelAtCall(x, y)
    \/ \E x \in Coordinates, y \in Coordinates, radius \in 0..MaxRadius,
          overflow_checks \in BOOLEAN :
          DrawCircleCall(x, y, radius, overflow_checks)

\* ------------------------------------------------ Canvas: convert_to_ppm
\* the colours of the pixels of a canvas to convert: "0 0 0 ", "255 127 0 "
\* (or so) and "255 255 255 ", and a colour brighter than white
PpmColors == {Black, <<One, One \div 2, 0>>, <<One, One, One>>, <<2 * One, One, One>>}

\* (channel * 255.) as u8: the product cut to an integer, saturating
ToU8(channel) == Clamp(Quot(channel * 255, One), 0, 255)

\* the number of characters of an unsigned integer printed with {}
Digits(n) == IF n < 10 THEN 1 ELSE IF n < 100 THEN 2 ELSE IF n < 1000 THEN 3 ELSE 4

\* the length of format!("{r} {g} {b} ")
TripleLen(pixel) ==
    Digits(ToU8(pixel[1])) + 1 + Digits(ToU8(pixel[2])) + 1 + Digits(ToU8(pixel[3])) + 1

Max(a, b) == IF a > b THEN a ELSE b

\* the number of columns a line of a PPM file may have
PpmColumns == 70

\* the test of the line break: char_count > 70 - 12
PpmBreak(count) == count > PpmColumns - 12

\* convert_to_ppm is called on a canvas; the header "P3", "<width>
\* <height>" and "255" is written
PpmInit ==
    /\ \E w \in 0..MaxPpmWidth, h \in 1..2 :
       \E pixels \in [1..(w * h) -> PpmColors] :
          /\ cv = [width |-> w, height |-> h, pixels |-> pixels]
          /\ longest = Max(3, Digits(w) + 1 + Digits(h))
    /\ cret = NoCall
    /\ ppk = 0
    /\ char_count = 0
    /\ col = 0
    /\ ppc = "ppm"

\* one iteration of the loop over the pixels
PpmPixel ==
    /\ ppc = "ppm"
    /\ ppk < Len(cv.pixels)
    /\ LET written == col + TripleLen(cv.pixels[ppk + 1])
       IN IF PpmBreak(char_count)
          THEN /\ longest' = Max(longest, written)
               /\ col' = 0
               /\ char_count' = 0
          ELSE /\ col' = written
               /\ char_count' = char_count + 12
               /\ UNCHANGED longest
    /\ ppk' = ppk + 1
    /\ UNCHANGED <<cv, cret, ppc>>
    /\ UNCHANGED <<renderVars, hitVars, shadeVars, theShape, localVars, callVars>>

\* the loop is over: the last newline
PpmEnd ==
    /\ ppc = "ppm"
    /\ ppk = Len(cv.pixels)
    /\ longest' = Max(longest, col)
    /\ col' = 0
    /\ ppc' = "done"
    /\ UNCHANGED <<cv, cret, ppk, char_count>>
    /\ UNCHANGED <<renderVars, hitVars, shadeVars, theShape, localVars, callVars>>

PpmNext ==
    \/ PpmPixel
    \/ PpmEnd

\* ------------------------------------------- shapes and their transforms
\* A transform is the map p -> scale * p + offset of one axis, with scale 1
\* or -1 (no scene uses a singular matrix).
Transforms == [scale : {-1, 1}, offset : (-MaxOffset)..MaxOffset]

\* Matrix4::identity
IdentityMap == [scale |-> 1, offset |-> 0]

\* Matrix4 * Matrix4: first b, then a
Compose(a, b) == [scale |-> a.scale * b.scale, offset |-> a.scale * b.offset + a.offset]

\* Matrix4::inverse
MatrixInverse(m) == [scale |-> m.scale, offset |-> -(m.scale * m.offset)]

\* the kinds of shape, and those whose transform field is public
ShapeKinds == {"Cube", "Plane", "Cylinder"}
PublicTransform == {"Cylinder"}

\* no shape is being built
TransformOff == theShape = None

\* Default for Cube, Plane, Cylinder
ShapeDefault ==
    \E kind \in ShapeKinds :
        theShape = [kind |-> kind, transform |-> IdentityMap,
                 inverse_transform |-> MatrixInverse(IdentityMap)]

\* Cube::set_transform, Plane::set_transform, Cylinder::set_transform
SetTransform(t) ==
    /\ theShape # None
    /\ theShape' = [theShape EXCEPT !.transform = t, !.inverse_transform = MatrixInverse(t)]
    /\ UNCHANGED <<renderVars, hitVars, shadeVars, canvasVars, localVars, callVars>>

\* shape.transform = t, where the field is public
AssignTransform(t) ==
    /\ theShape # None
    /\ theShape.kind \in PublicTransform
    /\ theShape' = [theShape EXCEPT !.transform = t]
    /\ UNCHANGED <<renderVars, hitVars, shadeVars, canvasVars, localVars, callVars>>

\* Plane::new(id, transform, inverse_transform, material), the derived
\* constructor: the fields are the arguments as they are passed
PlaneNew(transform, inverse_transform) ==
    /\ theShape # None
    /\ theShape' = [kind |-> "Plane", transform |-> transform,
                    inverse_transform |-> inverse_transform]
    /\ UNCHANGED <<renderVars, hitVars, shadeVars, canvasVars, localVars, callVars>>

TransformNext ==
    \/ \E t \in Transforms : SetTransform(t)
    \/ \E t \in Transforms : AssignTransform(t)
    \/ \E t \in Transforms, inv \in Transforms : PlaneNew(t, inv)

\* ------------------------------------------------- local_intersect, f32
\* An f32 is a finite number, an infinity or NaN.  A coordinate of a ray in
\* object space is a whole number, a component of its direction is -1, 0 or
\* 1: its magnitude is 0 or at least EPSILON.
Num(n) == [k |-> "num", v |-> n]
PosInf == [k |-> "inf", v |-> 1]
NegInf == [k |-> "inf", v |-> -1]
NaN == [k |-> "nan", v |-> 0]

IsNaN(a) == a.k = "nan"

\* n * f32::INFINITY for a finite n: 0 * infinity is NaN
TimesInfinity(n) == IF n > 0 THEN PosInf ELSE IF n < 0 THEN NegInf ELSE NaN

\* a < b and a > b on f32: false when either is NaN
FLess(a, b) ==
    IF IsNaN(a) \/ IsNaN(b) THEN FALSE
    ELSE IF a.k = "inf" THEN a.v = -1 /\ b # NegInf
    ELSE IF b.k = "inf" THEN b.v = 1
    ELSE a.v < b.v

FGreater(a, b) == FLess(b, a)

\* approx_eq: (a - b).abs() < EPSILON; a difference with NaN, or of two
\* infinities of one sign, is NaN and the test is false
ApproxEq(a, b) ==
    /\ a.k = "num"
    /\ b.k = "num"
    /\ Abs(a.v - b.v) < EPSILON

\* approx_cmp: equal within EPSILON, else by <
ApproxCmp(a, b) ==
    IF ApproxEq(a, b) THEN "Equal"
    ELSE IF FLess(a, b) THEN "Less"
    ELSE "Greater"

\* Iterator::max_by and Iterator::min_by of three values with approx_cmp:
\* max_by keeps the later of two values unless the earlier is greater,
\* min_by keeps the earlier unless it is greater
MaxByApprox(a, b, c) ==
    LET ab == IF ApproxCmp(a, b) = "Greater" THEN a ELSE b
    IN IF ApproxCmp(ab, c) = "Greater" THEN ab ELSE c

MinByApprox(a, b, c) ==
    LET ab == IF ApproxCmp(a, b) = "Greater" THEN b ELSE a
    IN IF ApproxCmp(ab, c) = "Greater" THEN c ELSE ab

\* check_axis
CheckAxis(origin, direction) ==
    LET tmin_numerator == -1 - origin
        tmax_numerator == 1 - origin
        tmin == IF Abs(direction) >= EPSILON
                THEN Num(Quot(tmin_numerator, direction))
                ELSE TimesInfinity(tmin_numerator)
        tmax == IF Abs(direction) >= EPSILON
                THEN Num(Quot(tmax_numerator, direction))
                ELSE TimesInfinity(tmax_numerator)
    IN IF FGreater(tmin, tmax) THEN <<tmax, tmin>> ELSE <<tmin, tmax>>

\* Cube::local_intersect: <<>> for None
CubeLocalIntersect(ray) ==
    LET x == CheckAxis(ray.origin[1], ray.direction[1])
        y == CheckAxis(ray.origin[2], ray.direction[2])
        z == CheckAxis(ray.origin[3], ray.direction[3])
        tmin == MaxByApprox(x[1], y[1], z[1])
        tmax == MinByApprox(x[2], y[2], z[2])
    IN IF FGreater(tmin, tmax) THEN <<>> ELSE <<tmin, tmax>>

\* Plane::local_intersect on the y components of the ray
PlaneLocalTs(ray) ==
    LET list == PlaneLocalIntersect(None, [origin |-> ray.origin[2],
                                           direction |-> ray.direction[2]])
    IN [j \in 1..Len(list) |-> Num(list[j].t)]

\* the rays in object space
LocalOrigins == ((-MaxCoord)..MaxCoord) \X ((-MaxCoord)..MaxCoord) \X ((-MaxCoord)..MaxCoord)
LocalDirections == ({-1, 0, 1} \X {-1, 0, 1} \X {-1, 0, 1}) \ {<<0, 0, 0>>}

\* no local_intersect is running
LocalOff ==
    /\ lkind = "none"
    /\ lray = None
    /\ lxs = <<>>
    /\ lpc = "off"

LocalInit ==
    /\ lkind \in {"Cube", "Plane"}
    /\ lray \in [origin : LocalOrigins, direction : LocalDirections]
    /\ lxs = <<>>
    /\ lpc = "start"

\* Shape::local_intersect
LocalIntersect ==
    /\ lpc = "start"
    /\ lxs' = IF lkind = "Cube" THEN CubeLocalIntersect(lray) ELSE PlaneLocalTs(lray)
    /\ lpc' = "intersected"
    /\ UNCHANGED <<lkind, lray>>
    /\ UNCHANGED <<renderVars, hitVars, shadeVars, canvasVars, theShape, callVars>>

\* PartialOrd::lt for Intersection: partial_cmp on t, false on a NaN
IntersectionLt(a, b) == FLess(a.t, b.t)

\* slice::sort of a list of at most 20 elements (Itertools::sorted collects
\* and sorts): an insertion sort that compares with PartialOrd::lt.  The
\* element x moves to the left past every element it is less than and stops
\* at the first it is not less than; a NaN is less than nothing and nothing
\* is less than it, so it stays where it is and nothing moves past it.
InsertTail(sorted, x) ==
    LET stops == {j \in 1..Len(sorted) : ~IntersectionLt(x, sorted[j])}
        p == IF stops = {} THEN 0
             ELSE CHOOSE j \in stops : \A k \in stops : k <= j
    IN SubSeq(sorted, 1, p) \o <<x>> \o SubSeq(sorted, p + 1, Len(sorted))

RECURSIVE InsertionSort(_, _)
InsertionSort(list, n) ==
    IF n = 0 THEN <<>>
    ELSE InsertTail(InsertionSort(list, n - 1), list[n])

SortedByT(list) == InsertionSort(list, Len(list))

\* World::intersect_world: sorted() of the intersections of the one shape
SortIntersections ==
    /\ lpc = "intersected"
    /\ lpc' = "sorted"
    /\ lxs' = LET list == SortedByT([j \in 1..Len(lxs) |-> [t |-> lxs[j]]])
              IN [j \in 1..Len(list) |-> list[j].t]
    /\ UNCHANGED <<lkind, lray>>
    /\ UNCHANGED <<renderVars, hitVars, shadeVars, canvasVars, theShape, callVars>>

LocalNext ==
    \/ LocalIntersect
    \/ SortIntersections

\* ------------------------------------------------------ Stripe::color_at
\* The x of a pattern point is an f32: n tenths (unit "tenth"), a whole
\* number n (unit "one") or n * 2^30 (unit "2^30"), which f32 holds exactly.
Tenths(n) == [unit |-> "tenth", n |-> n]
Whole(n) == [unit |-> "one", n |-> n]
Big(n) == [unit |-> "2^30", n |-> n]

\* i32::MAX and i32::MIN
I32Max == 2147483647
I32Min == -I32Max - 1

\* f32::floor
Floor(x) == IF x.unit = "tenth" THEN Whole(x.n \div 10) ELSE x

\* `as i32` of a whole f32: the value, saturating at the ends of i32
AsI32(x) ==
    IF x.unit = "2^30"
    THEN IF x.n >= 2 THEN I32Max
         ELSE IF x.n <= -2 THEN I32Min
         ELSE x.n * 1073741824
    ELSE x.n

\* % on i32: the remainder has the sign of the dividend
Rem(a, b) ==
    IF a >= 0 THEN a % b
    ELSE IF a % b = 0 THEN 0 ELSE (a % b) - b

\* Stripe::color_at
StripeColorAt(even, odd, point) ==
    IF Rem(AsI32(Floor(point[1])), 2) = 0 THEN even ELSE odd

\* the pattern points: x from -MaxTenths to MaxTenths tenths and the
\* multiples of 2^30 up to MaxBig of them
StripeXs == {Tenths(n) : n \in (-MaxTenths)..MaxTenths} \cup {Big(n) : n \in (-MaxBig)..MaxBig}
StripePoints == StripeXs \X {Whole(0), Whole(1)} \X {Whole(0), Whole(2)}

\* a call of Stripe::new(white, black).color_at(point)
StripeInit ==
    /\ arg \in [even : {<<One, One, One>>}, odd : {Black}, point : StripePoints]
    /\ ret = None
    /\ cpc = "call"

StripeColorAtCall ==
    /\ cpc = "call"
    /\ ret' = StripeColorAt(arg.even, arg.odd, arg.point)
    /\ cpc' = "returned"
    /\ UNCHANGED arg
    /\ UNCHANGED <<renderVars, hitVars, shadeVars, canvasVars, theShape, localVars>>

\* ------------------------------------------- World::intersect_world, 3-D
\* The objects of a world here are cubes and planes moved by a translation;
\* the id of an object is its place in world.objects.
WorldShapes ==
    [kind : {"Cube", "Plane"}, offset : {<<0, 0, 0>>, <<1, 1, 0>>}]
WorldObjects == UNION {[1..n -> WorldShapes] : n \in 0..MaxObjects}

\* Ray::transform by the inverse of a translation
LocalRay(ray, offset) ==
    [origin |-> [a \in 1..3 |-> ray.origin[a] - offset[a]],
     direction |-> ray.direction]

\* Shape::intersect of the object at place id: <<>> for None
ShapeIntersect(objects, id, ray) ==
    LET local == LocalRay(ray, objects[id].offset)
        ts == IF objects[id].kind = "Cube" THEN CubeLocalIntersect(local)
              ELSE PlaneLocalTs(local)
    IN [j \in 1..Len(ts) |-> [t |-> ts[j], object |-> id]]

\* map(intersect), filter(is_some), flatten, flatten: the intersections of
\* the objects from place id on, in the order of the objects
RECURSIVE IntersectEach(_, _, _)
IntersectEach(objects, id, ray) ==
    IF id > Len(objects) THEN <<>>
    ELSE ShapeIntersect(objects, id, ray) \o IntersectEach(objects, id + 1, ray)

\* a call of World::intersect_world
WorldInit ==
    /\ arg \in [objects : WorldObjects,
                ray : [origin : LocalOrigins, direction : LocalDirections]]
    /\ ret = None
    /\ cpc = "call"

IntersectWorldCall ==
    /\ cpc = "call"
    /\ ret' = SortedByT(IntersectEach(arg.objects, 1, arg.ray))
    /\ cpc' = "returned"
    /\ UNCHANGED arg
    /\ UNCHANGED <<renderVars, hitVars, shadeVars, canvasVars, theShape, localVars>>

\* ------------------------------------------- Cylinder::local_intersect
\* The rays have whole coordinates and a direction along x or along z (or
\* neither), with any y: a is 0 or 1 and the discriminant is a square, so
\* every t is a whole number.  A cylinder is its minimum, maximum (f32, as
\* for the cube) and is_closed.
CylinderDefault == [minimum |-> NegInf, maximum |-> PosInf, is_closed |-> FALSE]
Cylinders ==
    {CylinderDefault}
    \cup [minimum : {Num(-1), Num(0)}, maximum : {Num(1)}, is_closed : BOOLEAN]
CylinderDirections == {v \in LocalDirections : v[1] = 0 \/ v[3] = 0}

\* f32::sqrt of a square
Sqrt(v) == CHOOSE r \in 0..v : r * r <= v /\ v < (r + 1) * (r + 1)

\* Cylinder::check_cap
CheckCap(ray, t) ==
    LET x == t * ray.direction[1] + ray.origin[1]
        z == t * ray.direction[3] + ray.origin[3]
        comp == ApproxCmp(Num(z * z + x * x), Num(1))
    IN comp = "Less" \/ comp = "Equal"

\* Cylinder::intersect_caps: the t values it pushes (minimum and maximum
\* are numbers when the cylinder is closed)
IntersectCaps(cyl, ray) ==
    IF ~cyl.is_closed \/ ApproxEq(Num(ray.direction[2]), Num(0)) THEN <<>>
    ELSE LET t0 == Quot(cyl.minimum.v - ray.origin[2], ray.direction[2])
             t1 == Quot(cyl.maximum.v - ray.origin[2], ray.direction[2])
         IN (IF CheckCap(ray, t0) THEN <<t0>> ELSE <<>>)
            \o (IF CheckCap(ray, t1) THEN <<t1>> ELSE <<>>)

\* the test of a root of the side: minimum < y < maximum by approx_cmp
WithinOrAt(cyl, y) ==
    /\ ApproxCmp(cyl.minimum, Num(y)) # "Greater"
    /\ ApproxCmp(Num(y), cyl.maximum) # "Greater"
Within(cyl, y) ==
    /\ ApproxCmp(cyl.minimum, Num(y)) = "Less"
    /\ ApproxCmp(Num(y), cyl.maximum) = "Less"

\* Cylinder::local_intersect without the caps: the roots of the side it
\* pushes; some = FALSE for None
SideRoots(cyl, ray) ==
    LET a == ray.direction[3] * ray.direction[3] + ray.direction[1] * ray.direction[1]
        b == 2 * ray.origin[1] * ray.direction[1] + 2 * ray.origin[3] * ray.direction[3]
        c == ray.origin[3] * ray.origin[3] + ray.origin[1] * ray.origin[1] - 1
        discriminant == b * b - 4 * a * c
    IN IF ApproxEq(Num(a), Num(0)) THEN [some |-> cyl.is_closed, xs |-> <<>>]
       ELSE IF ApproxCmp(Num(discriminant), Num(0)) = "Less"
       THEN [some |-> FALSE, xs |-> <<>>]
       ELSE LET r0 == Quot(-b - Sqrt(discriminant), 2 * a)
                r1 == Quot(-b + Sqrt(discriminant), 2 * a)
                t0 == IF r0 > r1 THEN r1 ELSE r0
                t1 == IF r0 > r1 THEN r0 ELSE r1
                y0 == t0 * ray.direction[2] + ray.origin[2]
                y1 == t1 * ray.direction[2] + ray.origin[2]
            IN [some |-> TRUE,
                xs |-> (IF Within(cyl, y0) THEN <<t0>> ELSE <<>>)
                       \o (IF Within(cyl, y1) THEN <<t1>> ELSE <<>>)]

\* Cylinder::local_intersect
CylinderLocalIntersect(cyl, ray) ==
    LET side == SideRoots(cyl, ray)
    IN IF side.some THEN [some |-> TRUE, xs |-> side.xs \o IntersectCaps(cyl, ray)]
       ELSE side

\* a call of Cylinder::local_intersect
CylinderInit ==
    /\ arg \in [cyl : Cylinders,
                ray : [origin : LocalOrigins, direction : CylinderDirections]]
    /\ ret = None
    /\ cpc = "call"

CylinderLocalIntersectCall ==
    /\ cpc = "call"
    /\ ret' = CylinderLocalIntersect(arg.cyl, arg.ray)
    /\ cpc' = "returned"
    /\ UNCHANGED arg
    /\ UNCHANGED <<renderVars, hitVars, shadeVars, canvasVars, theShape, localVars>>

\* --------------------------------- PointLight::calculate_lighting, 2-D
\* The vectors here lie along the axes of a plane through the point lit:
\* each is a unit vector <<1, 0>>, <<0, 1>>, <<-1, 0>> or <<0, -1>>, or a
\* multiple of one, so a dot product of two unit vectors is -1, 0 or 1.
AxisVectors == {<<1, 0>>, <<0, 1>>, <<-1, 0>>, <<0, -1>>}

Dot2(a, b) == a[1] * b[1] + a[2] * b[2]
Neg2(a) == <<-a[1], -a[2]>>
Sub2(a, b) == <<a[1] - b[1], a[2] - b[2]>>
Scale2(a, s) == <<a[1] * s, a[2] * s>>

\* Vector::normalize of a vector along an axis
Normalize2(a) == <<Quot(a[1], Abs(a[1]) + Abs(a[2])), Quot(a[2], Abs(a[1]) + Abs(a[2]))>>

\* Vector::reflect
Reflect2(a, normal) == Sub2(a, Scale2(normal, 2 * Dot2(a, normal)))

\* f32::powf of 0 or 1 (in fixed point) to a power that is not negative:
\* 1 to any power is 1, 0 to the power 0 is 1, 0 to a positive power is 0
Powf(base, exponent) ==
    IF exponent = 0 THEN One
    ELSE IF base = 0 THEN 0
    ELSE One

\* the locals of calculate_lighting and the colour it returns
LightingTerms(light, material, pos, eye_vector, normal_vector, in_shadow) ==
    LET effective_color == ColorMul(material.color, light.intensity)
        ambient == ColorScale(effective_color, material.ambient)
        light_vector == Normalize2(Sub2(light.position, pos))
        light_dot_normal == Dot2(light_vector, normal_vector)
        reflect_vector == Neg2(Reflect2(light_vector, normal_vector))
        reflect_dot_eye == Dot2(reflect_vector, eye_vector)
        diffuse == IF light_dot_normal < 0 THEN Black
                   ELSE ColorScale(ColorScale(effective_color, material.diffuse),
                                   light_dot_normal * One)
        specular == IF light_dot_normal < 0 THEN Black
                    ELSE IF reflect_dot_eye < 0 THEN Black
                    ELSE ColorScale(ColorScale(light.intensity, material.specular),
                                    Powf(reflect_dot_eye * One, material.shininess))
    IN [ambient |-> ambient,
        light_dot_normal |-> light_dot_normal,
        reflect_dot_eye |-> reflect_dot_eye,
        color |-> IF in_shadow THEN ambient
                  ELSE ColorAdd(ColorAdd(ambient, diffuse), specular),
        lit |-> ColorAdd(ambient, diffuse)]

\* the materials lit: Material::default() with a shininess of 0, 10 or 200
\* and a specular of 0 or 0.9
LitMaterials ==
    [color : {<<One, One, One>>}, ambient : {One \div 10}, diffuse : {(9 * One) \div 10},
     specular : {0, (9 * One) \div 10}, shininess : {0, 10, 200}]

\* a call of calculate_lighting at the origin
LightingInit ==
    /\ arg \in [light : [position : {Scale2(v, MaxLight) : v \in AxisVectors},
                         intensity : {<<One, One, One>>}],
                material : LitMaterials,
                pos : {<<0, 0>>},
                eye_vector : AxisVectors,
                normal_vector : AxisVectors,
                in_shadow : BOOLEAN]
    /\ ret = None
    /\ cpc = "call"

CalculateLightingCall ==
    /\ cpc = "call"
    /\ ret' = LightingTerms(arg.light, arg.material, arg.pos, arg.eye_vector,
                            arg.normal_vector, arg.in_shadow)
    /\ cpc' = "returned"
    /\ UNCHANGED arg
    /\ UNCHANGED <<renderVars, hitVars, shadeVars, canvasVars, theShape, localVars>>

\* no call of a function of its arguments alone is running
CallOff ==
    /\ arg = None
    /\ ret = None
    /\ cpc = "off"

\* --------------------------------------------------------- specifications
OthersOff == CanvasOff /\ TransformOff /\ LocalOff /\ CallOff

CanvasSpecInit ==
    CanvasInit /\ RenderOff /\ HitOff /\ ShadeOff /\ TransformOff /\ LocalOff /\ CallOff

CanvasSpec == CanvasSpecInit /\ [][CanvasNext]_vars

PpmSpecInit ==
    PpmInit /\ RenderOff /\ HitOff /\ ShadeOff /\ TransformOff /\ LocalOff /\ CallOff

PpmSpec == PpmSpecInit /\ [][PpmNext]_vars

TransformSpecInit ==
    ShapeDefault /\ RenderOff /\ HitOff /\ ShadeOff /\ CanvasOff /\ LocalOff /\ CallOff

TransformSpec == TransformSpecInit /\ [][TransformNext]_vars

LocalSpecInit ==
    LocalInit /\ RenderOff /\ HitOff /\ ShadeOff /\ CanvasOff /\ TransformOff /\ CallOff

LocalSpec == LocalSpecInit /\ [][LocalNext]_vars

StripeSpecInit ==
    StripeInit /\ RenderOff /\ HitOff /\ ShadeOff /\ CanvasOff /\ TransformOff /\ LocalOff

StripeSpec == StripeSpecInit /\ [][StripeColorAtCall]_vars

WorldSpecInit ==
    WorldInit /\ RenderOff /\ HitOff /\ ShadeOff /\ CanvasOff /\ TransformOff /\ LocalOff

WorldSpec == WorldSpecInit /\ [][IntersectWorldCall]_vars

CylinderSpecInit ==
    CylinderInit /\ RenderOff /\ HitOff /\ ShadeOff /\ CanvasOff /\ TransformOff /\ LocalOff

CylinderSpec == CylinderSpecInit /\ [][CylinderLocalIntersectCall]_vars

LightingSpecInit ==
    LightingInit /\ RenderOff /\ HitOff /\ ShadeOff /\ CanvasOff /\ TransformOff /\ LocalOff

LightingSpec == LightingSpecInit /\ [][CalculateLightingCall]_vars

ShadeSpecInit == ShadeInit /\ RenderIdle /\ HitOff /\ OthersOff

ShadeSpec == ShadeSpecInit /\ [][ShadeNext]_vars

\* a call that can take a step takes it
FairShadeSpec == ShadeSpec /\ WF_vars(ShadeNext)

HitSpecInit == HitInit /\ RenderOff /\ ShadeOff /\ OthersOff

HitSpec == HitSpecInit /\ [][HitNext]_vars

Init == RenderInit /\ HitOff /\ ShadeOff /\ OthersOff

Next ==
    \/ \E y \in Scanlines(vsize) : ScanlineStart(y)
    \/ \E y \in Scanlines(vsize) : RenderPixel(y)
    \/ MergeRecv
    \/ RenderReturn

Spec == Init /\ [][Next]_vars

\* the worker threads and the merge loop keep running until render returns
FairSpec == Spec /\ WF_vars(Next)

\* ------------------------------------------------------- claims: render
PixelsOf(h, v) == {<<x, y>> : x \in 0..(h - 1), y \in 0..(v - 1)}

\* the colour render computes for (x, y) without jitter, black where the
\* loops do not reach
ExpectedPixel(w, h, v, x, y) ==
    IF x \in Columns(h) /\ y \in Scanlines(v)
    THEN LET ray == RayForPixel(x, y, Half, Half)
         IN RescaleColorRange(CameraColorAt(w, ray.xoffset, ray.yoffset,
                                            MAX_REFLECTION_RECURSION_DEPTH), 1)
    ELSE Black

\* C1: when render has returned, every pixel (x, y) of the hsize x vsize
\* canvas has been written exactly once.
C1_EveryPixelWrittenOnce ==
    rpc = "done" => \A p \in PixelsOf(hsize, vsize) :
                        writes[IndexAt(hsize, vsize, p[1], p[2])] = 1

\* C2: with samples_pre_pixel = 1 the colour at each (x, y) depends only on
\* (x, y), the camera and the world: a pixel the merge loop has written holds
\* the colour of the ray through its centre whatever was merged before it,
\* and the canvas render returns is the same in every interleaving.
C2_DeterministicImage ==
    samples = 1 =>
        /\ \A p \in PixelsOf(hsize, vsize) :
              LET i == IndexAt(hsize, vsize, p[1], p[2])
              IN canvas[i] = IF writes[i] > 0
                             THEN ExpectedPixel(world, hsize, vsize, p[1], p[2])
                             ELSE Black
        /\ rpc = "done" =>
              \A p \in PixelsOf(hsize, vsize) :
                  canvas[IndexAt(hsize, vsize, p[1], p[2])]
                      = ExpectedPixel(world, hsize, vsize, p[1], p[2])

\* two scanlines reached the merge loop interleaved: a coloured pixel of
\* scanline 1 is on the canvas while one of scanline 0 is still in flight
C2_Witness ==
    /\ samples = 1
    /\ hsize >= 3 /\ vsize >= 3
    /\ merged > 0 /\ chan # <<>>
    /\ Head(chan).y = 0
    /\ writes[IndexAt(hsize, vsize, 0, 1)] = 1
    /\ canvas[IndexAt(hsize, vsize, 0, 1)] # Black

\* the merge loop is never left waiting for a message nobody will send
MergeNeverStarves ==
    ~(rpc = "render" /\ ParallelDone /\ merged < MergeCount(hsize, vsize)
      /\ chan = <<>>)

\* C3: render runs to completion: the merge loop never blocks on a message
\* that is never sent, render returns, and when it returns no sent message
\* is left unreceived.
C3_RenderCompletes ==
    /\ [](MergeNeverStarves /\ (rpc = "done" => chan = <<>>))
    /\ <>(rpc = "done")

C3_Witness ==
    /\ rpc = "done"
    /\ merged = MergeCount(hsize, vsize)
    /\ merged >= 4

\* C4: no step of render changes the world, its light or any shape.
C4_WorldUnchanged == [][world' = world]_vars

C4_Witness ==
    /\ rpc = "done"
    /\ merged >= 4
    /\ world.objects # <<>>
    /\ \E i \in 1..(hsize * vsize) : canvas[i] # Black

\* ------------------------------------------- claims: hit, refraction stack
IsSorted(list) == \A i, j \in 1..Len(list) : i < j => list[i].t <= list[j].t

\* the hit is an element of the list: same t, same shape id
InXs(h, list) == \E k \in 1..Len(list) : list[k].t = h.t /\ list[k].object.id = h.object.id

FirstPosition(h, list) ==
    CHOOSE k \in 1..Len(list) :
        /\ list[k].t = h.t /\ list[k].object.id = h.object.id
        /\ \A j \in 1..(k - 1) : ~(list[j].t = h.t /\ list[j].object.id = h.object.id)

\* the objects entered and not yet exited after a list of intersections,
\* in the order they were entered
RECURSIVE Entered(_)
Entered(list) ==
    IF list = <<>> THEN <<>>
    ELSE LET before == Entered(SubSeq(list, 1, Len(list) - 1))
             object == list[Len(list)].object
             Other(c) == c.id # object.id
         IN IF \E k \in 1..Len(before) : before[k].id = object.id
            THEN SelectSeq(before, Other)
            ELSE Append(before, object)

\* the refractive index of the medium inside the entered objects
Medium(entered) ==
    IF Len(entered) = 0 THEN One
    ELSE entered[Len(entered)].material.refractive_index

\* C5: for xs sorted by t and a hit that is an element of xs, n1 is the
\* refractive index of the most recently entered, not yet exited object
\* before the hit is processed and n2 the one after the object of the hit has
\* been toggled, 1.0 when there is no such object.
C5_RefractiveIndices ==
    (hpc = "done" /\ hit # None /\ IsSorted(xs) /\ InXs(hit, xs)) =>
        LET p == FirstPosition(hit, xs)
        IN /\ n1 = Medium(Entered(SubSeq(xs, 1, p - 1)))
           /\ n2 = Medium(Entered(SubSeq(xs, 1, p)))

\* the hit leaves the outer of two nested objects: the inner one, entered
\* later, stays and gives both indices
C5_Witness ==
    /\ hpc = "done" /\ hit # None
    /\ IsSorted(xs) /\ Len(xs) = 3
    /\ hit = xs[3] /\ hit.t > xs[2].t
    /\ xs[1].object = Glass1 /\ xs[2].object = Dense /\ xs[3].object = Glass1
    /\ containers = <<Dense>>
    /\ n1 = Dense.material.refractive_index
    /\ n2 = Dense.material.refractive_index

\* C6: the refraction stack and the comparison with the hit go by shape id
\* only: an object whose id is in no container is appended (also when a
\* container has the same transform and material), an object whose id is in
\* a container removes it (whatever its other fields), and the loop stops at
\* the intersection with the t and the shape id of the hit.
C6_IdentityById ==
    [][(hpc = "loop" /\ idx <= Len(xs)) =>
         LET object == xs[idx].object
         IN /\ IF \E k \in 1..Len(containers) : containers[k].id = object.id
               THEN /\ Len(containers') = Len(containers) - 1
                    /\ \A k \in 1..Len(containers') : containers'[k].id # object.id
               ELSE containers' = Append(containers, object)
            /\ (hpc' = "done") <=>
                   (xs[idx].t = hit.t /\ xs[idx].object.id = hit.object.id)]_vars

\* Glass1 and Glass2 were both entered although equal in value, and Copy,
\* which has the id of Glass1 and other values, took Glass1 out
C6_Witness ==
    /\ hpc \in {"loop", "done"}
    /\ Len(xs) = 3 /\ idx = 4
    /\ xs[1].object = Glass1 /\ xs[2].object = Glass2 /\ xs[3].object = Copy
    /\ Glass1.id # Glass2.id /\ ShapeEqByValue(Glass1, Glass2)
    /\ Copy.id = Glass1.id /\ ~ShapeEqByValue(Copy, Glass1)
    /\ containers = <<Glass2>>

\* C7: get_hit returns an intersection of the list with the smallest t among
\* those with t >= 0, whatever the order of the list, and none exactly when
\* no intersection has t >= 0.
C7_GetHitSmallestNonNegative ==
    /\ hpc = "nohit" => (hit = None /\ \A i \in 1..Len(xs) : xs[i].t < 0)
    /\ hpc = "hit" =>
          /\ hit \in Range(xs)
          /\ hit.t >= 0
          /\ \A i \in 1..Len(xs) : xs[i].t >= 0 => hit.t <= xs[i].t

\* the hit is at t = 0, in an unsorted list with a negative and a larger t
C7_Witness ==
    /\ hpc = "hit"
    /\ hit.t = 0
    /\ ~IsSorted(xs)
    /\ \E i \in 1..Len(xs) : xs[i].t < 0
    /\ \E i \in 1..Len(xs) : xs[i].t > 0

\* ------------------------------------------------------ claims: shading

\* C8: reflected_color and refracted_color return black whenever the
\* remaining depth is <= 0, without pushing a further color_at call.
C8_BlackAtSpentDepth ==
    [][(spc = "run" /\ Top.pc \in {"reflected", "refracted"} /\ Top.depth <= 0) =>
          /\ Len(stack') = Len(stack)
          /\ IF Top.pc = "reflected"
             THEN stack'[Len(stack)].reflected = Black
             ELSE stack'[Len(stack)].refracted = Black]_vars

\* C9: every color_at call pushed by reflected_color or refracted_color has
\* a depth one less than its caller's; a color_at started with depth d >= 0
\* never has more than d secondary calls active, and it returns.
C9_DepthDecreases ==
    /\ [][(spc = "run" /\ Len(stack') > Len(stack)) =>
             stack'[Len(stack')].depth = Top.depth - 1]_vars
    /\ [](depth0 >= 0 => Len(stack) <= depth0 + 1)
    /\ (spc = "run" /\ depth0 >= 0) ~> (spc = "done")

\* two facing mirrors: the ray has bounced until the depth is used up
C9_Witness ==
    /\ spc = "run"
    /\ depth0 = MAX_REFLECTION_RECURSION_DEPTH
    /\ Len(stack) = depth0 + 1
    /\ Top.depth = 0
    /\ \A i \in 1..Len(world.objects) : world.objects[i].material = Mirror
    /\ \A i \in 1..(Len(stack) - 1) : stack[i].pc = "await_reflected"

IsMatte(material) == material.reflective = 0 /\ material.transparency = 0

\* C10: for a hit on a material with reflective = 0 and transparency = 0,
\* at every depth, shade_hit returns the surface colour computed at
\* over_point: both other colours are black and no secondary call is made.
C10_MatteIsSurface ==
    /\ \A i \in 1..(Len(stack) - 1) :
           ~IsMatte(stack[i].comps.intersection.object.material)
    /\ (spc = "run" /\ Top.pc = "combine"
        /\ IsMatte(Top.comps.intersection.object.material)) =>
           /\ Top.reflected = Black
           /\ Top.refracted = Black
           /\ Combine(Top) =
                  CalculateLighting(world.light_source,
                                    Top.comps.intersection.object.material,
                                    Top.comps.over_point, Top.comps.eye,
                                    Top.comps.normal,
                                    IsShadowed(world, Top.comps.over_point))

\* a secondary ray with depth left has hit a matte plane that is lit
C10_Witness ==
    /\ spc = "run"
    /\ Len(stack) > 1
    /\ Top.pc = "combine"
    /\ Top.depth > 0
    /\ IsMatte(Top.comps.intersection.object.material)
    /\ ~IsShadowed(world, Top.comps.over_point)
    /\ Top.surface # Black

\* the colour the innermost call hands to its caller in this step is c: the
\* outermost call stores it in result, a secondary call gives it to
\* reflected_color or refracted_color, which scales it
Delivers(c) ==
    IF Len(stack) = 1
    THEN result' = c /\ spc' = "done"
    ELSE LET caller == stack[Len(stack) - 1]
             material == caller.comps.intersection.object.material
         IN /\ Len(stack') = Len(stack) - 1
            /\ IF caller.pc = "await_reflected"
               THEN stack'[Len(stack')].reflected = ColorScale(c, material.reflective)
               ELSE stack'[Len(stack')].refracted = ColorScale(c, material.transparency)

\* C11: shade_hit returns surface + reflected * r + refracted * (1 - r), r
\* the Schlick reflectance, exactly when the material has reflective > 0
\* and transparency > 0, and surface + reflected + refracted otherwise.
C11_SchlickWeighting ==
    [][(spc = "run" /\ Top.pc = "combine") =>
          LET material == Top.comps.intersection.object.material
              r == SchlickReflectance(Top.comps)
              weighted == ColorAdd(ColorAdd(Top.surface, ColorScale(Top.reflected, r)),
                                   ColorScale(Top.refracted, One - r))
              plain == ColorAdd(ColorAdd(Top.surface, Top.reflected), Top.refracted)
          IN IF material.reflective > 0 /\ material.transparency > 0
             THEN Delivers(weighted)
             ELSE Delivers(plain)]_vars

\* a hit on a reflective and transparent plane whose two secondary colours
\* are not black and whose reflectance is strictly between 0 and 1, so the
\* weighted and the unweighted sums differ
C11_Witness ==
    /\ spc = "run"
    /\ Top.pc = "combine"
    /\ Top.comps.intersection.object.material.reflective > 0
    /\ Top.comps.intersection.object.material.transparency > 0
    /\ Top.reflected # Black
    /\ Top.refracted # Black
    /\ SchlickReflectance(Top.comps) > 0
    /\ SchlickReflectance(Top.comps) < One
    /\ Combine(Top) # ColorAdd(ColorAdd(Top.surface, Top.reflected), Top.refracted)

\* ------------------------------------------------------ claims: canvas

\* C14: write_pixel and pixel_at with x >= width or y >= height return the
\* error value (and with both in range they succeed), and a failed write
\* leaves every pixel of the canvas as it was.
C14_OutOfRangeIsError ==
    /\ [](cret.op \in {"write_pixel", "pixel_at"} =>
            (cret.ok <=> (cret.x < cv.width /\ cret.y < cv.height)))
    /\ [][(cret'.n > cret.n /\ cret'.op \in {"write_pixel", "pixel_at"}) =>
            /\ ppc' # "panic"
            /\ ~cret'.ok => cv' = cv]_vars

\* a write past the end of a canvas that already holds a written pixel
C14_Witness ==
    /\ ppc = "canvas"
    /\ cret.op = "write_pixel"
    /\ ~cret.ok
    /\ cret.x >= cv.width
    /\ cret.y < cv.height
    /\ \E i \in 1..Len(cv.pixels) : cv.pixels[i] # Black

\* a pixel_at call past the last row returned the error value
C14_WitnessRead ==
    /\ ppc = "canvas"
    /\ cret.op = "pixel_at"
    /\ ~cret.ok
    /\ cret.y >= cv.height
    /\ cv.width > 0

\* C17: no line of the text convert_to_ppm produces is longer than 70
\* characters, whatever the size of the canvas and the colours of its pixels.
C17_PpmLinesWithin70 == col <= PpmColumns /\ longest <= PpmColumns

\* ------------------------------------------------------ claims: shapes

\* C18: the cached inverse_transform of a shape is the inverse of its
\* transform after construction and after every operation that changes the
\* transform: set_transform, and assignment to the field where it is public.
C18_InverseCached ==
    theShape # None =>
        /\ Compose(theShape.transform, theShape.inverse_transform) = IdentityMap
        /\ Compose(theShape.inverse_transform, theShape.transform) = IdentityMap

\* C20: no local_intersect returns an intersection whose t is NaN, also
\* for a ray parallel to the plane or to a face of the cube and for a ray
\* whose origin lies in the plane of that face: it reports a miss or t
\* values that are numbers, so the sort by t in intersect_world never
\* meets a value it cannot compare.
C20_NoNaN == \A j \in 1..Len(lxs) : ~IsNaN(lxs[j])

\* ------------------------------------------------ claims: render, cont.

\* C15: every write_pixel call render makes has x < hsize and y < vsize of
\* the canvas it created (x and y are unsigned), so no message that is or
\* will be merged fails the write and the unwrap never panics.
C15_WritesInRange ==
    /\ rpc # "panic"
    /\ \A k \in 1..Len(chan) : chan[k].x < hsize /\ chan[k].y < vsize
    /\ Len(canvas) = hsize * vsize

\* the merge loop has written the pixel of the last column and the last
\* row the loops reach
C15_Witness ==
    /\ rpc = "render"
    /\ hsize = MaxSize /\ vsize = MaxSize
    /\ merged > 0
    /\ writes[IndexAt(hsize, vsize, hsize - 2, vsize - 2)] = 1

\* the sums of the samples of (x, y), over the jitters render may draw
SampleSums(w, spp, x, y) ==
    {SampleSum(w, x, y, js) : js \in [1..spp -> Jitter(spp) \X Jitter(spp)]}

\* channel c is a number of [0, 1]
InUnit(c) == c # ChannelNaN /\ 0 <= c /\ c <= One

\* channel c is the channel sum of s divided by the sample count and
\* clamped to [0, 1], up to the rounding of one division; the quotient by
\* a sample count of 0 is +inf, -inf or, for 0 / 0, NaN
IsAverage(c, s, spp) ==
    IF spp = 0
    THEN c = (IF s = 0 THEN ChannelNaN ELSE IF s > 0 THEN One ELSE 0)
    ELSE LET exact == Clamp(s \div spp, 0, One)
             rounding == (s \div One) + 1
         IN exact - rounding <= c /\ c <= exact + rounding

\* C16: the colour render sends and writes for a pixel is the sum of its
\* samples_pre_pixel sample colours from color_at(ray, 5), divided by the
\* sample count, each channel then clamped to [0, 1]; so every channel of
\* every pixel on the canvas lies in [0, 1].
C16_AveragedAndClamped ==
    /\ \A k \in 1..Len(chan) :
          /\ \A c \in 1..3 : InUnit(chan[k].color[c])
          /\ \E s \in SampleSums(world, samples, chan[k].x, chan[k].y) :
                \A c \in 1..3 : IsAverage(chan[k].color[c], s[c], samples)
    /\ \A p \in PixelsOf(hsize, vsize) :
          LET i == IndexAt(hsize, vsize, p[1], p[2])
          IN /\ \A c \in 1..3 : InUnit(canvas[i][c])
             /\ writes[i] > 0 =>
                   \E s \in SampleSums(world, samples, p[1], p[2]) :
                      \A c \in 1..3 : IsAverage(canvas[i][c], s[c], samples)

\* C16, with at least one sample per pixel: the colour render sends and
\* writes for a pixel is the sum of its samples_pre_pixel sample colours
\* from color_at(ray, 5), divided by the sample count, each channel then
\* clamped to [0, 1]; so every channel of every pixel on the canvas lies in
\* [0, 1].
C16_AveragedAndClampedIfSampled ==
    samples >= 1 => C16_AveragedAndClamped

\* two samples of a pixel of the bright shape are on the canvas: the sum is
\* 6.0 in the red channel, the pixel holds 1.0 there and 0.25 in the blue
C16_Witness ==
    /\ samples = 2
    /\ vsize = MaxSize
    /\ writes[IndexAt(hsize, vsize, 0, 1)] = 1
    /\ SampleSums(world, samples, 0, 1) = {<<6 * One, 2 * One, 2 * (One \div 4)>>}
    /\ canvas[IndexAt(hsize, vsize, 0, 1)][1] = One
    /\ canvas[IndexAt(hsize, vsize, 0, 1)][3] < One
    /\ canvas[IndexAt(hsize, vsize, 0, 1)][3] > 0

\* ------------------------------------------------ claims: shading, cont.

\* the ray has no hit: every intersection of every object has a negative t
NoHit(w, ray) ==
    \A k \in 1..Len(w.objects) :
        LET list == Intersect(w.objects[k], ray)
        IN \A j \in 1..Len(list) : list[j].t < 0

\* C12: color_at returns black when the ray has no hit (no object is
\* intersected, or every intersection has a negative t), at any depth.
C12_BlackOnMiss ==
    [][(spc = "run" /\ Top.pc = "color_at" /\ NoHit(world, Top.ray)) =>
          Delivers(Black)]_vars

\* the outermost call has returned black for a scene without objects
C12_Witness ==
    /\ spc = "done"
    /\ world.objects = <<>>
    /\ result = Black

\* a secondary ray that has left the scene through a transparent plane:
\* every plane is behind it
C12_WitnessBehind ==
    /\ spc = "run"
    /\ Len(stack) > 1
    /\ Top.pc = "color_at"
    /\ world.objects # <<>>
    /\ NoHit(world, Top.ray)

\* some object blocks the way from p to the light: an intersection of the
\* ray from p toward the light with 0 <= t < the distance to the light
Blocked(w, p) ==
    LET v == w.light_source.position - p
        ray == [origin |-> p, direction |-> Normalize(v)]
    IN \E k \in 1..Len(w.objects) :
          LET list == Intersect(w.objects[k], ray)
          IN \E j \in 1..Len(list) : 0 <= list[j].t /\ list[j].t < Abs(v)

\* C13: is_shadowed(p) is true exactly when the ray from p toward the light
\* has an intersection with 0 <= t < distance(p, light); an object beyond
\* the light or behind p does not put p in shadow.
C13_ShadowedIffBlocked ==
    \A i \in 1..Len(stack) :
        stack[i].pc \notin {"color_at", "shade_hit"} =>
            stack[i].shadowed = Blocked(world, stack[i].comps.over_point)

\* a lit point with one plane beyond the light and one behind the point
C13_Witness ==
    /\ spc = "run"
    /\ Top.pc = "reflected"
    /\ ~Top.shadowed
    /\ LET p == Top.comps.over_point
           v == world.light_source.position - p
           ray == [origin |-> p, direction |-> Normalize(v)]
       IN /\ \E k \in 1..Len(world.objects) :
                \E j \in 1..Len(Intersect(world.objects[k], ray)) :
                    Intersect(world.objects[k], ray)[j].t >= Abs(v)
          /\ \E k \in 1..Len(world.objects) :
                \E j \in 1..Len(Intersect(world.objects[k], ray)) :
                    Intersect(world.objects[k], ray)[j].t < 0

\* a point in the shadow of a plane between it and the light
C13_WitnessShadowed ==
    /\ spc = "run"
    /\ Top.pc = "reflected"
    /\ Top.shadowed

\* C19: precompute_hit sets inside and negates the normal exactly when the
\* normal of the shape at the hit point has a negative dot product with
\* eye = -direction; the normal it returns has normal . eye >= 0, and
\* over_point and under_point are the point moved by EPSILON along and
\* against that normal.
C19_InsideAndOffsets ==
    \A i \in 1..Len(stack) :
        stack[i].comps # None =>
            LET comps == stack[i].comps
                ray == stack[i].ray
                shapeNormal == GetNormal(comps.intersection.object, comps.point)
            IN /\ comps.point = ray.origin + ray.direction * comps.intersection.t
               /\ comps.eye = -ray.direction
               /\ comps.inside <=> (shapeNormal * comps.eye < 0)
               /\ comps.normal = IF shapeNormal * comps.eye < 0
                                 THEN -shapeNormal ELSE shapeNormal
               /\ comps.normal * comps.eye >= 0
               /\ comps.over_point = comps.point + comps.normal * EPSILON
               /\ comps.under_point = comps.point - comps.normal * EPSILON

\* a ray that hit the ceiling from below (inside: the normal was negated)
\* was reflected and has hit the floor from above (outside)
C19_Witness ==
    /\ spc = "run"
    /\ Len(stack) >= 2
    /\ stack[1].comps.inside
    /\ stack[1].comps.normal = -1
    /\ stack[1].comps.over_point < stack[1].comps.point
    /\ Top.comps # None
    /\ ~Top.comps.inside
    /\ Top.comps.normal = 1
    /\ Top.comps.over_point > Top.comps.point

\* the pixels pixel_at can read
InBounds == {<<a, b>> \in Coordinates \X Coordinates : a < cv.width /\ b < cv.height}

\* C21: on a new canvas every pixel reads black; a successful write_pixel to
\* (x, y) makes pixel_at(x, y) return the colour written and leaves what
\* pixel_at returns for every other pixel as it was; a failed write and a
\* pixel_at call change no pixel, and pixel_at returns the pixel it is asked
\* for; a draw_circle call, a sequence of write_pixel calls with white,
\* leaves every pixel as it was or white.  So pixel_at(x, y) is the colour
\* of the last successful write to exactly (x, y), or black.
C21_LastWriteWins ==
    /\ [](cret.n = 0 =>
            \A p \in InBounds :
                PixelAt(cv.pixels, cv.width, cv.height, p[1], p[2]).color = Black)
    /\ [][(cret'.n > cret.n /\ cret'.op = "draw_circle") =>
            \A p \in InBounds :
                PixelAt(cv'.pixels, cv.width, cv.height, p[1], p[2]).color
                \in {cret'.color, PixelAt(cv.pixels, cv.width, cv.height, p[1], p[2]).color}]_vars
    /\ [][(cret'.n > cret.n /\ cret'.op # "draw_circle") =>
            /\ cv'.width = cv.width /\ cv'.height = cv.height
            /\ \A p \in InBounds :
                  PixelAt(cv'.pixels, cv.width, cv.height, p[1], p[2]).color
                  = IF cret'.op = "write_pixel" /\ cret'.ok /\ p = <<cret'.x, cret'.y>>
                    THEN cret'.color
                    ELSE PixelAt(cv.pixels, cv.width, cv.height, p[1], p[2]).color
            /\ (cret'.op = "pixel_at" /\ cret'.ok) =>
                  /\ <<cret'.x, cret'.y>> \in InBounds
                  /\ \E i \in 1..Len(cv.pixels) :
                        /\ cret'.color = cv.pixels[i]
                        /\ i = IndexAt(cv.width, cv.height, cret'.x, cret'.y)]_vars

\* after two writes, one to (1, 0) and one to another pixel, pixel_at(1, 0)
\* returned the colour written there and the other pixels differ from it
C21_Witness ==
    /\ ppc = "canvas"
    /\ cret.n = MaxCalls
    /\ cret.op = "pixel_at"
    /\ cret.ok
    /\ cret.x = 1 /\ cret.y = 0
    /\ cret.color # Black
    /\ cv.width = 2 /\ cv.height = 2
    /\ cv.pixels[2] = cret.color
    /\ cv.pixels[3] # Black
    /\ cv.pixels[3] # cret.color
    /\ cv.pixels[1] = Black /\ cv.pixels[4] = Black

\* ----------------------------------------------------- claims: patterns

\* floor(x) of an f32 x is even: a multiple of 2^30 is a whole even number
\* (or 0)
FloorIsEven(x) ==
    IF x.unit = "tenth" THEN (x.n \div 10) % 2 = 0
    ELSE IF x.unit = "one" THEN x.n % 2 = 0
    ELSE TRUE

\* C22: the stripe pattern returns `even` when floor(x) of the point is even
\* and `odd` otherwise, for negative x as well, whatever y and z are.
C22_StripeByFloorParity ==
    cpc = "returned" /\ "point" \in DOMAIN arg =>
        ret = IF FloorIsEven(arg.point[1]) THEN arg.even ELSE arg.odd

\* ------------------------------------------------------- claims: world

\* how often the intersection x is in the list
TimesIn(list, x) == Cardinality({j \in 1..Len(list) : list[j] = x})

\* C23: the list intersect_world returns holds every intersection of every
\* object with the ray as often as the object returned it and nothing else
\* (an object that misses adds nothing), and its t values do not decrease.
C23_AllIntersectionsSorted ==
    cpc = "returned" /\ "objects" \in DOMAIN arg =>
        /\ \A id \in 1..Len(arg.objects) :
              LET own == ShapeIntersect(arg.objects, id, arg.ray)
              IN /\ \A j \in 1..Len(own) : TimesIn(ret, own[j]) = TimesIn(own, own[j])
                 /\ Cardinality({j \in 1..Len(ret) : ret[j].object = id}) = Len(own)
        /\ \A j \in 1..Len(ret) : ret[j].object \in 1..Len(arg.objects)
        /\ \A j, k \in 1..Len(ret) :
              j < k => /\ ~IsNaN(ret[j].t) /\ ~IsNaN(ret[k].t)
                       /\ ~FLess(ret[k].t, ret[j].t)

\* ----------------------------------------------- claims: shapes, cont.

\* a <= b on f32: false when either is NaN
FLeq(a, b) == ~IsNaN(a) /\ ~IsNaN(b) /\ ~FLess(b, a)

\* the per-axis entry values (1) and exit values (2) of check_axis
AxisValues(ray, end) ==
    {CheckAxis(ray.origin[a], ray.direction[a])[end] : a \in 1..3}

IsLargest(v, values) == v \in values /\ \A e \in values : FLeq(e, v)
IsSmallest(v, values) == v \in values /\ \A e \in values : FLeq(v, e)

\* C24: Cube::local_intersect returns a miss or exactly two intersections
\* (tmin, tmax) with tmin <= tmax, tmin the largest of the three per-axis
\* entry values and tmax the smallest of the three exit values; it returns
\* a miss exactly when that tmin is greater than that tmax.
C24_CubeSlabs ==
    lkind = "Cube" /\ lpc = "intersected" =>
        IF lxs = <<>>
        THEN \E tmin \in AxisValues(lray, 1), tmax \in AxisValues(lray, 2) :
                /\ IsLargest(tmin, AxisValues(lray, 1))
                /\ IsSmallest(tmax, AxisValues(lray, 2))
                /\ FGreater(tmin, tmax)
        ELSE /\ Len(lxs) = 2
             /\ IsLargest(lxs[1], AxisValues(lray, 1))
             /\ IsSmallest(lxs[2], AxisValues(lray, 2))
             /\ FLeq(lxs[1], lxs[2])

\* the point of the ray at t: its height and the square of its distance
\* from the axis
HeightAt(ray, t) == ray.origin[2] + t * ray.direction[2]
RadiusSqAt(ray, t) ==
    LET x == ray.origin[1] + t * ray.direction[1]
        z == ray.origin[3] + t * ray.direction[3]
    IN x * x + z * z

\* the values of t the rays here can meet the cylinder or a cap plane at
Ts == (-(2 * MaxCoord + 2))..(2 * MaxCoord + 2)

\* C25: a root of the side is kept only if minimum < y(t) < maximum
\* strictly, a root whose y is minimum or maximum is discarded; on an open
\* cylinder a ray that travels at the height of a bound yields no
\* intersection.
C25_SideStrict ==
    cpc = "returned" /\ "cyl" \in DOMAIN arg =>
        /\ \A j \in 1..Len(SideRoots(arg.cyl, arg.ray).xs) :
              LET y == Num(HeightAt(arg.ray, SideRoots(arg.cyl, arg.ray).xs[j]))
              IN FLess(arg.cyl.minimum, y) /\ FLess(y, arg.cyl.maximum)
        /\ ~arg.cyl.is_closed =>
              /\ \A j \in 1..Len(ret.xs) :
                    LET y == Num(HeightAt(arg.ray, ret.xs[j]))
                    IN /\ FLess(arg.cyl.minimum, y) /\ FLess(y, arg.cyl.maximum)
                       /\ RadiusSqAt(arg.ray, ret.xs[j]) = 1
              /\ (/\ arg.ray.direction[2] = 0
                  /\ Num(arg.ray.origin[2]) \in {arg.cyl.minimum, arg.cyl.maximum})
                    => ret.xs = <<>>

\* an open cylinder and a ray at the height of its maximum that crosses the
\* axis: both roots of the side are discarded
C25_Witness ==
    /\ cpc = "returned"
    /\ "cyl" \in DOMAIN arg
    /\ ~arg.cyl.is_closed
    /\ arg.cyl.maximum = Num(1)
    /\ arg.ray.origin = <<-2, 1, 0>>
    /\ arg.ray.direction = <<1, 0, 0>>
    /\ ret = [some |-> TRUE, xs |-> <<>>]

\* the ray is on a rim of the cylinder at t
OnRim(cyl, ray, t) ==
    /\ RadiusSqAt(ray, t) = 1
    /\ Num(HeightAt(ray, t)) \in {cyl.minimum, cyl.maximum}

\* the ray passes through the inside of the cylinder: at some t, a whole
\* number or a half, it is nearer than 1 to the axis and between the bounds
Crosses(cyl, ray) ==
    \E n \in (-(4 * MaxCoord + 4))..(4 * MaxCoord + 4) :
        LET x2 == 2 * ray.origin[1] + n * ray.direction[1]
            y2 == 2 * ray.origin[2] + n * ray.direction[2]
            z2 == 2 * ray.origin[3] + n * ray.direction[3]
        IN /\ x2 * x2 + z2 * z2 < 4
           /\ 2 * cyl.minimum.v < y2
           /\ y2 < 2 * cyl.maximum.v

Reported(list, t) == Cardinality({j \in 1..Len(list) : list[j] = t})

\* the ray crosses a closed cylinder
CrossesClosed == arg.cyl.is_closed /\ Crosses(arg.cyl, arg.ray)

\* the cap planes are tested only for a closed cylinder and a ray whose
\* direction.y is at least EPSILON in magnitude
CapsOnlyClosedAndSloped ==
    IntersectCaps(arg.cyl, arg.ray) # <<>> =>
        arg.cyl.is_closed /\ Abs(arg.ray.direction[2]) >= EPSILON

\* C26: on a closed cylinder a rim point of any ray is reported
\* exactly once, a ray that crosses the cylinder yields exactly 2
\* intersections, and caps are added only when the cylinder is closed and
\* direction.y is not below EPSILON in magnitude.
C26_RimOnce ==
    cpc = "returned" /\ "cyl" \in DOMAIN arg =>
        /\ arg.cyl.is_closed =>
              \A t \in Ts : OnRim(arg.cyl, arg.ray, t) => Reported(ret.xs, t) = 1
        /\ CrossesClosed => Len(ret.xs) = 2
        /\ CapsOnlyClosedAndSloped

\* ----------------------------------------------------- claims: lighting

\* C27: with in_shadow false and the light on the side of the surface the
\* normal points to, the specular term is zero whenever reflect_vec . eye
\* <= 0, exactly 0 included, for every shininess: the colour returned is
\* ambient + diffuse.  With in_shadow true it is the ambient term alone.
C27_NoSpecularAtOrBelowZero ==
    cpc = "returned" /\ "light" \in DOMAIN arg =>
        /\ arg.in_shadow => ret.color = ret.ambient
        /\ (~arg.in_shadow /\ ret.light_dot_normal >= 0 /\ ret.reflect_dot_eye <= 0)
              => ret.color = ret.lit

\* ------------------------------------------------ claims: render, cont.

\* C28: for a camera with hsize >= 1 and vsize >= 1 render writes exactly
\* (hsize - 1) * (vsize - 1) pixels, those with x < hsize - 1 and
\* y < vsize - 1, each once; the last row and the last column of the canvas
\* are never written and keep the black they were created with.
C28_LastRowAndColumnBlack ==
    /\ \A p \in PixelsOf(hsize, vsize) :
          (p[1] = hsize - 1 \/ p[2] = vsize - 1) =>
              /\ writes[IndexAt(hsize, vsize, p[1], p[2])] = 0
              /\ canvas[IndexAt(hsize, vsize, p[1], p[2])] = Black
    /\ rpc = "done" =>
          /\ {p \in PixelsOf(hsize, vsize) : writes[IndexAt(hsize, vsize, p[1], p[2])] > 0}
             = {p \in PixelsOf(hsize, vsize) : p[1] < hsize - 1 /\ p[2] < vsize - 1}
          /\ \A p \in PixelsOf(hsize, vsize) :
                writes[IndexAt(hsize, vsize, p[1], p[2])] <= 1
          /\ merged = (hsize - 1) * (vsize - 1)

\* render has returned an image of the largest size with a lit pixel next
\* to the last column and the last row
C28_Witness ==
    /\ rpc = "done"
    /\ hsize = MaxSize /\ vsize = MaxSize
    /\ canvas[IndexAt(hsize, vsize, hsize - 2, vsize - 2)] # Black
    /\ canvas[IndexAt(hsize, vsize, hsize - 1, vsize - 2)] = Black
    /\ canvas[IndexAt(hsize, vsize, hsize - 2, vsize - 1)] = Black

\* ------------------------------------------------ claims: refraction, cont.

\* the refractive indices of the objects of the first p intersections
IndicesUpTo(list, p) == {list[k].object.material.refractive_index : k \in 1..p}

\* C29: when calculate_refractive_indices has returned for a hit that is not
\* an element of xs (no element with its t and its shape id), n1 and n2 are
\* both the 0.0 they were initialised with; for a hit that is an element,
\* each of n1 and n2 is 1.0 or the refractive index of an object of xs at or
\* before the hit, and never that 0.0.
C29_ZeroIffAbsent ==
    (hpc = "done" /\ hit # None) =>
        IF InXs(hit, xs)
        THEN LET p == FirstPosition(hit, xs)
             IN /\ n1 \in {One} \cup IndicesUpTo(xs, p)
                /\ n2 \in {One} \cup IndicesUpTo(xs, p)
                /\ n1 # 0 /\ n2 # 0
        ELSE n1 = 0 /\ n2 = 0

\* the hit is the third intersection, inside two objects: n1 and n2 are
\* indices of objects met before it
C29_Witness ==
    /\ hpc = "done" /\ hit # None
    /\ Len(xs) = 3
    /\ InXs(hit, xs) /\ FirstPosition(hit, xs) = 3
    /\ xs[1].object = Glass1 /\ xs[2].object = Dense /\ xs[3].object = Dense
    /\ n1 = Dense.material.refractive_index
    /\ n2 = Glass1.material.refractive_index

\* the hit shares its t with an element of xs and its shape with none: the
\* loop ran through xs and left n1 and n2 at 0.0
C29_WitnessAbsent ==
    /\ hpc = "done" /\ hit # None
    /\ ~InXs(hit, xs)
    /\ Len(xs) = MaxXs /\ idx = Len(xs) + 1
    /\ \E k \in 1..Len(xs) : xs[k].t = hit.t
    /\ containers # <<>>
    /\ n1 = 0 /\ n2 = 0

\* how often the shape id occurs among the first p intersections, and the
\* place of its last occurrence
Occurrences(list, p, id) == {k \in 1..p : list[k].object.id = id}
LastOccurrence(list, p, id) ==
    CHOOSE k \in Occurrences(list, p, id) : \A j \in Occurrences(list, p, id) : j <= k

\* C30: containers never holds a shape id twice; after the loop of
\* calculate_refractive_indices has processed a prefix of xs it holds
\* exactly the shapes that occur an odd number of times in the prefix, each
\* as it last entered, in the order of their most recent entry.
C30_ContainersAreOddShapes ==
    hpc \in {"loop", "done"} =>
        LET p == idx - 1
            ids == {xs[k].object.id : k \in 1..p}
            odd == {id \in ids : Cardinality(Occurrences(xs, p, id)) % 2 = 1}
        IN /\ \A j, k \in 1..Len(containers) :
                 j < k => containers[j].id # containers[k].id
           /\ {containers[j].id : j \in 1..Len(containers)} = odd
           /\ \A j \in 1..Len(containers) :
                 containers[j] = xs[LastOccurrence(xs, p, containers[j].id)].object
           /\ \A j, k \in 1..Len(containers) :
                 j < k => LastOccurrence(xs, p, containers[j].id)
                          < LastOccurrence(xs, p, containers[k].id)

\* two shapes were entered and the one entered first has been left: the
\* other stays
C30_Witness ==
    /\ hpc \in {"loop", "done"}
    /\ Len(xs) = 3 /\ idx = 4
    /\ xs[1].object = Glass1 /\ xs[2].object = Dense /\ xs[3].object = Copy
    /\ containers = <<Dense>>

====
